---- MODULE Spec2Model ----
(***************************************************************************)
(* State-machine model of the spendtrail ingestion / review pipeline:      *)
(*   - the pending-transaction review workflow (approve, reject,           *)
(*     bulk-approve, delete, expiry sweep, TTL index),                     *)
(*   - the learning stores an approval writes,                             *)
(*   - the deduplication gate of the SMS webhook and the e-mail pollers.   *)
(* Times are counted in units of the 7-day review window.  Hashes         *)
(* (sha256) are modelled by the tuple that is hashed, i.e. as an injective *)
(* function of the dedupe key.                                             *)
(***************************************************************************)
EXTENDS Integers, Sequences, FiniteSets, TLC

(***************************************************************************)
(* Bounds of the model                                                     *)
(***************************************************************************)
MaxPending == 1      \* PendingTransactions ever created in the review specifications
MaxTime == 2         \* the clock stops here
MaxRequests == 2     \* review requests in flight together
MaxDeliveries == 2   \* message deliveries in flight together
MaxIngest == 2       \* records the ingestion paths create
MaxDay == 1          \* the calendar stops here

(***************************************************************************)
(* Program constants                                                       *)
(***************************************************************************)
ExpiryTtl == 1
HistoryCap == 20
MaxVisitHistory == 20
VisitsForMaxConfidence == 10
PromoteMinUsers == 3
ProcessedCap == 1000

Users == {"u1", "u2"}
PendIds == 1..MaxPending

None == "none"
NoNum == -1

(* String.prototype.toLowerCase().trim() on the merchant strings used *)
Lower(s) ==
    CASE s = "Dominos" -> "dominos"
      [] s = "DOMINOS" -> "dominos"
      [] s = "Unknown" -> "unknown"
      [] OTHER -> s

(* sender.match(/@([a-z0-9.-]+\.[a-z]{2,})$/i)?.[1]?.toLowerCase() *)
SenderDomain(s) ==
    CASE s = "alerts@bank.com" -> "bank.com"
      [] s = "Alerts@Bank.com" -> "bank.com"
      [] s = "noreply@shop.in" -> "shop.in"
      [] OTHER -> None

LowerSender(s) ==
    CASE s = "Alerts@Bank.com" -> "alerts@bank.com"
      [] OTHER -> s

(***************************************************************************)
(* Candidates as the pollers store them in parsedData, and the             *)
(* correctedData payloads of the review UI.  coords is the GeoJSON         *)
(* coordinates array <<lng, lat>>; Mongoose defaults a missing array to    *)
(* the empty array.                                                        *)
(***************************************************************************)
NoCorrection ==
    [present |-> FALSE, amount |-> NoNum, type |-> None, category |-> None,
     merchant |-> None, paymentMethod |-> None, date |-> NoNum,
     hasLocation |-> FALSE, coords |-> <<>>]

CorrectedChoices ==
    { NoCorrection,
      [present |-> TRUE, amount |-> 300, type |-> "expense", category |-> "Dining",
       merchant |-> "Dominos", paymentMethod |-> "card", date |-> NoNum,
       hasLocation |-> TRUE, coords |-> <<78, 13>>] }

(* message texts: one that names a place after "at", one that does not *)
AddressText == "Spent Rs 250 at DOMINOS MG Road"
PlainText == "Rs 250 debited from account"

GmailSource ==
    [type |-> "gmail", emailId |-> "m1", from |-> "Alerts@Bank.com", rawContent |-> AddressText]
EmailSource ==
    [type |-> "email", emailId |-> "h1", from |-> "alerts@bank.com", rawContent |-> PlainText]

(* what the pollers hand to PendingTransaction.create: <<parsedData, source>> *)
IngestChoices ==
    { <<[amount |-> 250, type |-> "expense", category |-> "Food",
         merchant |-> "DOMINOS", paymentMethod |-> "upi", coords |-> <<>>], GmailSource>>,
      <<[amount |-> 250, type |-> "expense", category |-> "Other",
         merchant |-> "Dominos", paymentMethod |-> "other", coords |-> <<77, 12>>], EmailSource>> }

NoFeedback == [approved |-> None, corrected |-> NoCorrection, notes |-> None]

VARIABLES
    pend,                 \* PendingTransaction collection: _id -> document
    nextPid,              \* next PendingTransaction _id
    txns,                 \* Transaction collection, in insertion order (_id = index)
    now,                  \* the clock, in units of the 7-day window
    emailParsingPatterns, \* EmailParsingPattern collection, in insertion order
    merchantPatterns,     \* MerchantPattern collection: <<user, merchantKey>> -> document
    merchantLocations,    \* MerchantLocation collection: <<user, merchantKey>> -> document
    emailLocationPatterns,\* EmailLocationPattern collection, in insertion order
    learningPatterns,     \* LearningPattern collection, in insertion order
    reqs,                 \* review requests between their awaits: slot -> locals
    deliveries,           \* message deliveries between their awaits: slot -> locals
    inbox,                \* the e-mails the forwarding inbox returns, in arrival order
    processedEmailIds,    \* EmailPollerService.processedEmailIds, in insertion order
    gmail,                \* Gmail mailboxes: user -> message id -> absent/unread/read
    processedMessageIds,  \* MultiUserGmailPollerService.processedMessageIds: user -> set
    today,                \* the calendar day (UTC) of the server clock
    reply,                \* the last reply of POST /sms-webhook
    ret                   \* what the last call of a lookup service returned

learnVars == <<emailParsingPatterns, merchantPatterns, merchantLocations,
               emailLocationPatterns, learningPatterns>>
ingestVars == <<deliveries, inbox, processedEmailIds, gmail, processedMessageIds, today, reply,
                ret>>
auxVars == <<reqs, deliveries, inbox, processedEmailIds, gmail, processedMessageIds, today, reply,
             ret>>
vars == <<pend, nextPid, txns, now, emailParsingPatterns, merchantPatterns,
          merchantLocations, emailLocationPatterns, learningPatterns,
          reqs, deliveries, inbox, processedEmailIds, gmail, processedMessageIds,
          today, reply, ret>>

ReqIds == 1..MaxRequests
DeliveryIds == 1..MaxDeliveries
GmailIds == {"m1", "m2"}

(* a request slot before its handler has started *)
IdleReq ==
    [kind |-> "none", pc |-> "idle", user |-> None, id |-> 0, cd |-> NoCorrection,
     reason |-> None, doc |-> <<>>, txn |-> 0, code |-> 0]

IdleDelivery ==
    [kind |-> "none", pc |-> "idle", user |-> None, hash |-> <<>>, body |-> <<>>, code |-> 0]

NoReply ==
    [handled |-> FALSE, code |-> 0, duplicate |-> FALSE, txn |-> 0, user |-> None,
     key |-> <<>>, existed |-> FALSE]

(* no lookup has been made *)
NoRet == [kind |-> "none"]

Init ==
    /\ pend = <<>>
    /\ nextPid = 1
    /\ txns = <<>>
    /\ now = 0
    /\ emailParsingPatterns = <<>>
    /\ merchantPatterns = <<>>
    /\ merchantLocations = <<>>
    /\ emailLocationPatterns = <<>>
    /\ learningPatterns = <<>>
    /\ reqs = [r \in ReqIds |-> IdleReq]
    /\ deliveries = [k \in DeliveryIds |-> IdleDelivery]
    /\ inbox = <<>>
    /\ processedEmailIds = <<>>
    /\ gmail = [u \in Users |-> [m \in GmailIds |-> "absent"]]
    /\ processedMessageIds = [u \in Users |-> {}]
    /\ today = 0
    /\ reply = NoReply
    /\ ret = NoRet

(***************************************************************************)
(* PendingTransaction.create as the pollers call it, with the schema       *)
(* defaults: status pending, expiresAt = Date.now() + 7 days.              *)
(***************************************************************************)
NewPending(u, parsed, src) ==
    [user |-> u, parsed |-> parsed, date |-> now, source |-> src,
     status |-> "pending", feedback |-> NoFeedback,
     approvedTransaction |-> 0, expiresAt |-> now + ExpiryTtl]

CreatePending(u, parsed, src) ==
    /\ nextPid <= MaxPending
    /\ pend' = pend @@ (nextPid :> NewPending(u, parsed, src))
    /\ nextPid' = nextPid + 1
    /\ UNCHANGED <<txns, now>>
    /\ UNCHANGED <<learnVars, auxVars>>

Tick ==
    /\ now < MaxTime
    /\ now' = now + 1
    /\ UNCHANGED <<pend, nextPid, txns>>
    /\ UNCHANGED <<learnVars, auxVars>>

(* a sweep filter that forgets the status condition *)
IsOverdueAnyStatus(d) == d.expiresAt < now

(* a sweep filter that takes the expiry instant itself as overdue *)
IsOverdueInclusive(d) == d.status = "pending" /\ d.expiresAt <= now

(* the filter of expireOldTransactions: status pending, expiresAt < now *)
IsOverdue(d) == d.status = "pending" /\ d.expiresAt < now

ExpireOldTransactions ==
    /\ pend' = [i \in DOMAIN pend |->
                  IF IsOverdue(pend[i]) THEN [pend[i] EXCEPT !.status = "expired"]
                  ELSE pend[i]]
    /\ UNCHANGED <<nextPid, txns, now>>
    /\ UNCHANGED <<learnVars, auxVars>>

(* the TTL index on expiresAt (expireAfterSeconds: 0): MongoDB's TTL       *)
(* monitor removes a document once its expiresAt has been reached,         *)
(* whatever its status.                                                    *)
TtlDue(d) == d.expiresAt <= now

TtlMonitor ==
    /\ \E i \in DOMAIN pend : TtlDue(pend[i])
    /\ pend' = [i \in {j \in DOMAIN pend : ~TtlDue(pend[j])} |-> pend[i]]
    /\ UNCHANGED <<nextPid, txns, now>>
    /\ UNCHANGED <<learnVars, auxVars>>

(***************************************************************************)
(* EmailParsingPattern.promoteToGlobal(senderDomain, sender)               *)
(***************************************************************************)
SimilarPatterns(store, domain, sender) ==
    { i \in DOMAIN store :
        /\ ~store[i].isGlobal
        /\ (store[i].sender = LowerSender(sender) \/ store[i].senderDomain = domain)
        /\ store[i].confidence > 70 }

GroupKey(p) == <<p.corrected.amount, p.corrected.type, p.corrected.merchant>>

(* indices of the similar patterns, ascending (the order find() returns) *)
RECURSIVE SortedIdx(_)
SortedIdx(S) ==
    IF S = {} THEN <<>>
    ELSE LET m == CHOOSE x \in S : \A y \in S : x <= y
         IN <<m>> \o SortedIdx(S \ {m})

(* the group keys in the order Object.entries() yields them: first occurrence *)
RECURSIVE GroupKeys(_, _)
GroupKeys(store, idx) ==
    IF idx = <<>> THEN <<>>
    ELSE LET rest == GroupKeys(store, Tail(idx))
             k == GroupKey(store[Head(idx)])
         IN <<k>> \o SelectSeq(rest, LAMBDA x : x # k)

GlobalConfidence(n) == IF 70 + 5 * n < 95 THEN 70 + 5 * n ELSE 95

RECURSIVE PromoteGroups(_, _, _, _)
PromoteGroups(store, sim, keys, domain) ==
    IF keys = <<>> THEN [store |-> store, promoted |-> FALSE]
    ELSE LET members == { i \in sim : GroupKey(store[i]) = Head(keys) }
             uniqueUsers == { store[i].user : i \in members } \ {None}
             rep == store[CHOOSE i \in members : \A j \in members : i <= j]
             existing == { g \in DOMAIN store :
                             /\ store[g].isGlobal
                             /\ store[g].senderDomain = domain
                             /\ store[g].corrected.type = rep.corrected.type }
         IN IF Cardinality(uniqueUsers) >= PromoteMinUsers
            THEN IF existing = {}
                 THEN [store |-> Append(store,
                                   [user |-> None, isGlobal |-> TRUE,
                                    confirmedByUsers |-> Cardinality(uniqueUsers),
                                    sender |-> rep.sender, senderDomain |-> rep.senderDomain,
                                    original |-> rep.original, corrected |-> rep.corrected,
                                    confidence |-> GlobalConfidence(Cardinality(uniqueUsers))]),
                       promoted |-> TRUE]
                 ELSE LET g == CHOOSE x \in existing : \A y \in existing : x <= y
                      IN PromoteGroups(
                            [store EXCEPT ![g].confirmedByUsers = Cardinality(uniqueUsers),
                                          ![g].confidence = GlobalConfidence(Cardinality(uniqueUsers))],
                            sim, Tail(keys), domain)
            ELSE PromoteGroups(store, sim, Tail(keys), domain)

PromoteToGlobal(store, domain, sender) ==
    LET sim == SimilarPatterns(store, domain, sender)
    IN PromoteGroups(store, sim, GroupKeys(store, SortedIdx(sim)), domain).store

(***************************************************************************)
(* pendingTransactionSchema.methods.approve: the learning block that runs  *)
(* before the Transaction is created.  fails is the set of store writes    *)
(* that throw in this request.                                             *)
(***************************************************************************)
LearnsEmailPattern(d, cd) == cd.present /\ d.source.type = "gmail" /\ d.source.from # None

NewEmailParsingPattern(d, cd) ==
    [user |-> d.user, isGlobal |-> FALSE, confirmedByUsers |-> 1,
     sender |-> LowerSender(d.source.from), senderDomain |-> SenderDomain(d.source.from),
     original |-> [amount |-> d.parsed.amount, type |-> d.parsed.type,
                   merchant |-> d.parsed.merchant, category |-> d.parsed.category,
                   paymentMethod |-> d.parsed.paymentMethod],
     corrected |-> [amount |-> cd.amount, type |-> cd.type, merchant |-> cd.merchant,
                    category |-> cd.category, paymentMethod |-> cd.paymentMethod],
     confidence |-> 70]

ApproveLearnEmail(store, d, cd, fails) ==
    IF ~LearnsEmailPattern(d, cd) \/ "emailPattern" \in fails THEN store
    ELSE LET created == Append(store, NewEmailParsingPattern(d, cd))
         IN IF "promote" \in fails THEN created
            ELSE PromoteToGlobal(created, SenderDomain(d.source.from), d.source.from)

(***************************************************************************)
(* approve: the Transaction built from correctedData || parsedData         *)
(***************************************************************************)
TransactionData(d, cd) ==
    IF cd.present
    THEN [amount |-> cd.amount, category |-> cd.category, merchant |-> cd.merchant,
          date |-> cd.date, hasCoords |-> cd.hasLocation, coords |-> cd.coords]
    ELSE [amount |-> d.parsed.amount, category |-> d.parsed.category,
          merchant |-> d.parsed.merchant, date |-> d.date,
          hasCoords |-> TRUE, coords |-> d.parsed.coords]

(* location: coordinates ? {type:'exact', lat: c[1], lng: c[0], source:'bank_hint'} : undefined *)
(* (an array is truthy even when empty; the schema defaults fill the rest) *)
TxnLocation(td) ==
    IF td.hasCoords
    THEN [type |-> "exact",
          lat |-> IF Len(td.coords) >= 2 THEN td.coords[2] ELSE NoNum,
          lng |-> IF Len(td.coords) >= 1 THEN td.coords[1] ELSE NoNum,
          source |-> "bank_hint"]
    ELSE [type |-> "unknown", lat |-> NoNum, lng |-> NoNum, source |-> "unknown"]

(* what approve() hands to Transaction.create; paymentMethod is not passed *)
(* and takes the schema default 'other'                                    *)
NewTransaction(pid, d, cd) ==
    LET td == TransactionData(d, cd)
    IN [user |-> d.user,
        amount |-> td.amount,
        category |-> IF td.category = None THEN "Other" ELSE td.category,
        merchant |-> td.merchant,
        paymentMethod |-> "other",
        timestamp |-> IF td.date = NoNum THEN now ELSE td.date,
        source |-> d.source.type,
        location |-> TxnLocation(td),
        messageHash |-> <<>>,
        fromPending |-> pid]

(* Transaction schema validation: amount is required *)
TransactionValid(t) == t.amount # NoNum

(***************************************************************************)
(* LocationMatchingService.learnMerchantLocation / learnFromCorrection     *)
(* A stored location is the pair of coordinate sums over the retained      *)
(* visit samples together with their number (the average, unreduced).      *)
(***************************************************************************)
FirstN(seq, n) == IF Len(seq) > n THEN SubSeq(seq, 1, n) ELSE seq

LastN(seq, n) == IF Len(seq) > n THEN SubSeq(seq, Len(seq) - n + 1, Len(seq)) ELSE seq

RECURSIVE SumLat(_)
SumLat(h) == IF h = <<>> THEN 0 ELSE Head(h)[1] + SumLat(Tail(h))
RECURSIVE SumLng(_)
SumLng(h) == IF h = <<>> THEN 0 ELSE Head(h)[2] + SumLng(Tail(h))

Min(a, b) == IF a < b THEN a ELSE b

VisitConfidenceUncapped(visits) == (visits * 100) \div VisitsForMaxConfidence

(* Math.min(visits / 10, 1.0), in percent *)
VisitConfidence(visits) == Min((visits * 100) \div VisitsForMaxConfidence, 100)

LearnMerchantLocation(store, u, merchantName, lat, lng) ==
    LET k == <<u, Lower(merchantName)>>
    IN IF k \in DOMAIN store
       THEN LET hist == LastN(Append(store[k].visitHistory, <<lat, lng>>), MaxVisitHistory)
            IN [store EXCEPT ![k] =
                   [@ EXCEPT !.visits = @ + 1,
                             !.visitHistory = hist,
                             !.latSum = SumLat(hist), !.lngSum = SumLng(hist),
                             !.samples = Len(hist),
                             !.confidence = VisitConfidence(store[k].visits + 1)]]
       ELSE store @@ (k :> [merchantName |-> merchantName, visits |-> 1, confidence |-> 20,
                            visitHistory |-> <<<<lat, lng>>>>,
                            latSum |-> lat, lngSum |-> lng, samples |-> 1])

(* extractLocationPattern: the source of the first regex that matches, or null *)
AddressRegex == "(?:at|location|address)[:\\s]+([^\\n]+)"

ExtractLocationPattern(emailContent) ==
    IF emailContent = AddressText THEN AddressRegex ELSE None

(* new RegExp(pattern, 'i').test(emailContent) *)
RegexTest(pattern, emailContent) == pattern = AddressRegex /\ emailContent = AddressText

LearnEmailLocation(store, u, sender, emailContent, merchantName, lat, lng) ==
    LET mk == IF merchantName = None THEN None ELSE Lower(merchantName)
        locationPattern == ExtractLocationPattern(emailContent)
        found == { i \in DOMAIN store :
                     store[i].user = u /\ store[i].sender = sender /\ store[i].merchantKey = mk }
    IN IF found # {}
       THEN LET i == CHOOSE x \in found : \A y \in found : x <= y
            IN [store EXCEPT ![i] =
                   [@ EXCEPT !.lat = lat, !.lng = lng,
                             !.successfulExtractions = @ + 1,
                             !.timesMatched = @ + 1,
                             !.locationPattern =
                                 IF locationPattern # None THEN locationPattern ELSE @,
                             !.confidence =
                                 Min(((store[i].successfulExtractions + 1) * 100)
                                        \div (store[i].timesMatched + 1), 100)]]
       ELSE Append(store, [user |-> u, sender |-> sender, senderDomain |-> SenderDomain(sender),
                           merchantKey |-> mk, locationPattern |-> locationPattern,
                           lat |-> lat, lng |-> lng, confidence |-> 60,
                           successfulExtractions |-> 1, timesMatched |-> 1,
                           isGlobal |-> FALSE])

(* the route's  if (correctedData && correctedData.location)  block *)
LearnsLocation(cd) == cd.present /\ cd.hasLocation /\ Len(cd.coords) = 2

RouteLearnMerchantLocation(store, d, cd, fails) ==
    IF LearnsLocation(cd) /\ d.parsed.merchant # None /\ "merchantLocation" \notin fails
    THEN LearnMerchantLocation(store, d.user, d.parsed.merchant, cd.coords[2], cd.coords[1])
    ELSE store

RouteLearnEmailLocation(store, d, cd, fails) ==
    IF LearnsLocation(cd) /\ d.source.emailId # None /\ d.source.rawContent # None
       /\ "emailLocation" \notin fails
    THEN LearnEmailLocation(store, d.user, LowerSender(d.source.emailId),
                            d.source.rawContent, d.parsed.merchant,
                            cd.coords[2], cd.coords[1])
    ELSE store

(***************************************************************************)
(* MerchantPattern: addVariation, learnCategory, learnPaymentMethod and    *)
(* the upsert of the approve route.  A confidence is the pair              *)
(* <<count of the preferred value, history length>>.                       *)
(***************************************************************************)
AddVariation(vs, parsedName) ==
    LET hit == { i \in DOMAIN vs : Lower(vs[i].parsedName) = Lower(parsedName) }
    IN IF hit # {}
       THEN LET i == CHOOSE x \in hit : \A y \in hit : x <= y
            IN [vs EXCEPT ![i].occurrences = @ + 1]
       ELSE Append(vs, [parsedName |-> parsedName, occurrences |-> 1])

CountOf(h, v) == Cardinality({ i \in DOMAIN h : h[i][2] = v })

(* the value that entered the history first, whatever its count *)
FirstEntered(h) == h[1][2]

(* Object.entries(counts).sort((a, b) => b[1] - a[1])[0]: the largest count, *)
(* ties going to the value that entered the history first                    *)
MostCommon(h) ==
    LET first(v) == CHOOSE i \in DOMAIN h : h[i][2] = v /\ \A j \in DOMAIN h : h[j][2] = v => i <= j
        vals == { h[i][2] : i \in DOMAIN h }
    IN CHOOSE v \in vals :
          \A w \in vals : \/ CountOf(h, v) > CountOf(h, w)
                          \/ (CountOf(h, v) = CountOf(h, w) /\ first(v) <= first(w))

EmptyPreference == [preferred |-> None, confidence |-> <<0, 1>>, history |-> <<>>]

LearnPreference(pref, parsedValue, correctedValue) ==
    LET hist == LastN(Append(pref.history, <<parsedValue, correctedValue>>), HistoryCap)
        best == MostCommon(hist)
    IN [preferred |-> best, confidence |-> <<CountOf(hist, best), Len(hist)>>, history |-> hist]

PaymentMethodEnum == {"cash", "card", "upi", "wallet", "other"}

(* schema validation of a MerchantPattern on save() *)
MerchantPatternValid(p) == p.payment.preferred \in PaymentMethodEnum \cup {None}

ApproveMerchant(d, cd) ==
    IF cd.present /\ cd.merchant # None THEN cd.merchant ELSE d.parsed.merchant

UpsertedPattern(store, d, cd) ==
    LET merchant == ApproveMerchant(d, cd)
        k == <<d.user, Lower(merchant)>>
        parsedMerchant == d.parsed.merchant
    IN IF k \in DOMAIN store
       THEN [store[k] EXCEPT
               !.totalTransactions = @ + 1,
               !.variations = IF parsedMerchant # None /\ Lower(parsedMerchant) # k[2]
                              THEN AddVariation(@, parsedMerchant) ELSE @]
       ELSE [merchantName |-> merchant,
             variations |-> IF parsedMerchant # None
                            THEN <<[parsedName |-> parsedMerchant, occurrences |-> 1]>>
                            ELSE <<>>,
             totalTransactions |-> 1, totalCorrections |-> 0,
             category |-> EmptyPreference, payment |-> EmptyPreference]

(* a route that learns the category of every correction, changed or not *)
CorrectedPatternAnyCategory(p, d, cd) ==
    IF ~cd.present THEN p
    ELSE LET c1 == [p EXCEPT !.totalCorrections = @ + 1]
             c2 == IF cd.category # None
                   THEN [c1 EXCEPT !.category = LearnPreference(@, d.parsed.category, cd.category)]
                   ELSE c1
         IN IF cd.paymentMethod # None /\ cd.paymentMethod # d.parsed.paymentMethod
            THEN [c2 EXCEPT !.payment =
                      LearnPreference(@, d.parsed.paymentMethod, cd.paymentMethod)]
            ELSE c2

CorrectedPattern(p, d, cd) ==
    IF ~cd.present THEN p
    ELSE LET c1 == [p EXCEPT !.totalCorrections = @ + 1]
             c2 == IF cd.category # None /\ cd.category # d.parsed.category
                   THEN [c1 EXCEPT !.category = LearnPreference(@, d.parsed.category, cd.category)]
                   ELSE c1
         IN IF cd.paymentMethod # None /\ cd.paymentMethod # d.parsed.paymentMethod
            THEN [c2 EXCEPT !.payment =
                      LearnPreference(@, d.parsed.paymentMethod, cd.paymentMethod)]
            ELSE c2

Put(store, k, v) == [x \in DOMAIN store \cup {k} |-> IF x = k THEN v ELSE store[x]]

RouteLearnMerchantPattern(store, d, cd, fails) ==
    LET merchant == ApproveMerchant(d, cd)
        k == <<d.user, Lower(merchant)>>
        upserted == UpsertedPattern(store, d, cd)
        final == CorrectedPattern(upserted, d, cd)
        afterCreate == IF k \in DOMAIN store THEN store ELSE Put(store, k, upserted)
    IN IF merchant = None \/ "merchantPatternCreate" \in fails THEN store
       ELSE IF "merchantPatternSave" \in fails \/ ~MerchantPatternValid(final)
            THEN afterCreate
            ELSE Put(store, k, final)

(* LearningPattern.create of the route, for any correctedData *)
RouteLearnPattern(store, d, cd, fails) ==
    IF cd.present /\ "learningPattern" \notin fails
    THEN Append(store, [user |-> d.user, source |-> d.source.type,
                        amountChanged |-> cd.amount # d.parsed.amount,
                        typeChanged |-> cd.type # d.parsed.type,
                        categoryChanged |-> cd.category # d.parsed.category,
                        merchantChanged |-> cd.merchant # d.parsed.merchant])
    ELSE store

(***************************************************************************)
(* The review routes.  Each request is one atomic step of Spec.            *)
(***************************************************************************)
FailPoints == {"emailPattern", "promote", "merchantLocation", "emailLocation",
               "merchantPatternCreate", "merchantPatternSave", "learningPattern"}

(* the sets of learning-store writes that fail within one request *)
FailChoices == {{}, FailPoints, {"promote", "merchantPatternSave"}}

(* a lookup that forgets the status condition *)
FindOnePendingAnyStatus(store, u, id) == id \in DOMAIN store /\ store[id].user = u

(* a lookup that forgets the owner condition *)
FindOnePendingAnyUser(store, u, id) == id \in DOMAIN store /\ store[id].status = "pending"

(* PendingTransaction.findOne({ _id, user, status: 'pending' }) *)
FindOnePending(store, u, id) ==
    id \in DOMAIN store /\ store[id].user = u /\ store[id].status = "pending"

(* the assignments of approve() before this.save() *)
ApprovedDoc(d, txnId, cd) ==
    [d EXCEPT !.status = "approved",
              !.approvedTransaction = txnId,
              !.feedback = [approved |-> "yes", corrected |-> cd, notes |-> None]]

(* a reject() that stores the feedback and forgets the status *)
RejectedDocKeepsStatus(d, reason) ==
    [d EXCEPT !.feedback = [approved |-> "no", corrected |-> NoCorrection, notes |-> reason]]

RejectedDoc(d, reason) ==
    [d EXCEPT !.status = "rejected",
              !.feedback = [approved |-> "no", corrected |-> NoCorrection, notes |-> reason]]

(* approve() with its learning block outside any try/catch *)
CaughtPointsRouteOnly == FailPoints \ {"emailPattern", "promote"}

(* every learning-store write of an approval sits in a try/catch *)
CaughtPoints == FailPoints

(* the learning writes approve() makes before Transaction.create *)
Aborts(d, cd, fails) ==
    \E f \in fails \ CaughtPoints :
        f \in {"emailPattern", "promote"} /\ LearnsEmailPattern(d, cd)

(* the learning writes the route makes after approve() has returned *)
FailsAfter(d, cd, fails) ==
    \E f \in fails \ CaughtPoints :
        \/ f \in {"merchantLocation", "emailLocation"} /\ LearnsLocation(cd)
        \/ f \in {"merchantPatternCreate", "merchantPatternSave"} /\ ApproveMerchant(d, cd) # None
        \/ f = "learningPattern" /\ cd.present

(* one POST /:id/approve on the stores as they stand: the reply (txn is    *)
(* the _id of the Transaction returned) and every collection after it      *)
ApproveOutcome(u, id, cd, fails) ==
    LET stores == [pend |-> pend, txns |-> txns,
                   emailParsingPatterns |-> emailParsingPatterns,
                   merchantPatterns |-> merchantPatterns,
                   merchantLocations |-> merchantLocations,
                   emailLocationPatterns |-> emailLocationPatterns,
                   learningPatterns |-> learningPatterns]
    IN IF ~FindOnePending(pend, u, id)
       THEN [code |-> 404, txn |-> 0] @@ stores
       ELSE LET d == pend[id]
                t == NewTransaction(id, d, cd)
                learned == [stores EXCEPT !.emailParsingPatterns =
                               ApproveLearnEmail(emailParsingPatterns, d, cd, fails)]
            IN IF Aborts(d, cd, fails) \/ ~TransactionValid(t)
               THEN [code |-> 500, txn |-> 0] @@ learned
               ELSE [code |-> IF FailsAfter(d, cd, fails) THEN 500 ELSE 200,
                     txn |-> IF FailsAfter(d, cd, fails) THEN 0 ELSE Len(txns) + 1]
                    @@ [learned EXCEPT
                          !.txns = Append(txns, t),
                          !.pend = [pend EXCEPT ![id] = ApprovedDoc(d, Len(txns) + 1, cd)],
                          !.merchantLocations =
                              RouteLearnMerchantLocation(merchantLocations, d, cd, fails),
                          !.emailLocationPatterns =
                              RouteLearnEmailLocation(emailLocationPatterns, d, cd, fails),
                          !.merchantPatterns =
                              RouteLearnMerchantPattern(merchantPatterns, d, cd, fails),
                          !.learningPatterns =
                              RouteLearnPattern(learningPatterns, d, cd, fails)]

ApproveResponse(u, id, cd, fails) ==
    [code |-> ApproveOutcome(u, id, cd, fails).code,
     txn |-> ApproveOutcome(u, id, cd, fails).txn]

ApproveRoute(u, id, cd, fails) ==
    LET o == ApproveOutcome(u, id, cd, fails)
    IN /\ pend' = o.pend
       /\ txns' = o.txns
       /\ emailParsingPatterns' = o.emailParsingPatterns
       /\ merchantPatterns' = o.merchantPatterns
       /\ merchantLocations' = o.merchantLocations
       /\ emailLocationPatterns' = o.emailLocationPatterns
       /\ learningPatterns' = o.learningPatterns
       /\ UNCHANGED <<nextPid, now>>
       /\ UNCHANGED auxVars

(* the HTTP status of POST /:id/reject *)
RejectResponse(u, id) == IF FindOnePending(pend, u, id) THEN 200 ELSE 404

RejectRoute(u, id, reason) ==
    IF ~FindOnePending(pend, u, id)
    THEN /\ UNCHANGED <<pend, nextPid, txns, now>>
         /\ UNCHANGED <<learnVars, auxVars>>
    ELSE /\ pend' = [pend EXCEPT ![id] = RejectedDoc(pend[id], reason)]
         /\ UNCHANGED <<nextPid, txns, now>>
         /\ UNCHANGED <<learnVars, auxVars>>

(* the loop of bulk-approve: findOne + approve() with no correctedData per id *)
RECURSIVE BulkApproveLoop(_, _, _, _)
BulkApproveLoop(st, u, ids, approved) ==
    IF ids = <<>> THEN [pend |-> st.pend, txns |-> st.txns, approved |-> approved]
    ELSE LET id == Head(ids)
         IN IF FindOnePending(st.pend, u, id)
            THEN LET d == st.pend[id]
                     t == NewTransaction(id, d, NoCorrection)
                 IN IF TransactionValid(t)
                    THEN BulkApproveLoop(
                            [pend |-> [st.pend EXCEPT
                                         ![id] = ApprovedDoc(d, Len(st.txns) + 1, NoCorrection)],
                             txns |-> Append(st.txns, t)],
                            u, Tail(ids), approved + 1)
                    ELSE BulkApproveLoop(st, u, Tail(ids), approved)
            ELSE BulkApproveLoop(st, u, Tail(ids), approved)

BulkIdLists == { <<i>> : i \in PendIds } \cup { <<i, j>> : i \in PendIds, j \in PendIds }

BulkApproveRoute(u, ids) ==
    LET r == BulkApproveLoop([pend |-> pend, txns |-> txns], u, ids, 0)
    IN /\ pend' = r.pend
       /\ txns' = r.txns
       /\ UNCHANGED <<nextPid, now>>
       /\ UNCHANGED <<learnVars, auxVars>>

(* PendingTransaction.findOneAndDelete({ _id, user }) *)
DeleteRoute(u, id) ==
    IF id \in DOMAIN pend /\ pend[id].user = u
    THEN /\ pend' = [i \in DOMAIN pend \ {id} |-> pend[i]]
         /\ UNCHANGED <<nextPid, txns, now>>
         /\ UNCHANGED <<learnVars, auxVars>>
    ELSE /\ UNCHANGED <<pend, nextPid, txns, now>>
         /\ UNCHANGED <<learnVars, auxVars>>

Reasons == {None, "wrong"}

Next ==
    \/ \E u \in Users, c \in IngestChoices : CreatePending(u, c[1], c[2])
    \/ \E u \in Users, id \in PendIds, cd \in CorrectedChoices, f \in FailChoices :
          ApproveRoute(u, id, cd, f)
    \/ \E u \in Users, id \in PendIds, r \in Reasons : RejectRoute(u, id, r)
    \/ \E u \in Users, ids \in BulkIdLists : BulkApproveRoute(u, ids)
    \/ \E u \in Users, id \in PendIds : DeleteRoute(u, id)
    \/ Tick
    \/ ExpireOldTransactions
    \/ TtlMonitor

Spec == Init /\ [][Next]_vars

(***************************************************************************)
(* SpecRace: the review handlers as they run on the server, one step per   *)
(* database round trip.  POST /:id/approve is findOne, then approve()      *)
(* up to Transaction.create, then this.save() and the rest of the route;   *)
(* POST /:id/reject is findOne, then reject()'s save().  Mongoose save()   *)
(* writes the modified paths by _id alone, whatever the stored status is.  *)
(***************************************************************************)
ApproveFind(r, u, id, cd) ==
    /\ reqs[r].pc = "idle"
    /\ reqs' = [reqs EXCEPT ![r] =
                  IF FindOnePending(pend, u, id)
                  THEN [IdleReq EXCEPT !.kind = "approve", !.pc = "found", !.user = u,
                                       !.id = id, !.cd = cd, !.doc = <<pend[id]>>]
                  ELSE [IdleReq EXCEPT !.kind = "approve", !.pc = "done", !.code = 404]]
    /\ UNCHANGED <<pend, nextPid, txns, now>>
    /\ UNCHANGED <<learnVars, ingestVars>>

ApproveCreate(r) ==
    /\ reqs[r].kind = "approve"
    /\ reqs[r].pc = "found"
    /\ LET d == reqs[r].doc[1]
           cd == reqs[r].cd
           t == NewTransaction(reqs[r].id, d, cd)
       IN /\ emailParsingPatterns' = ApproveLearnEmail(emailParsingPatterns, d, cd, {})
          /\ IF TransactionValid(t)
             THEN /\ txns' = Append(txns, t)
                  /\ reqs' = [reqs EXCEPT ![r].pc = "created", ![r].txn = Len(txns) + 1]
             ELSE /\ UNCHANGED txns
                  /\ reqs' = [reqs EXCEPT ![r] =
                                [IdleReq EXCEPT !.kind = "approve", !.pc = "done", !.code = 500]]
    /\ UNCHANGED <<pend, nextPid, now, merchantPatterns, merchantLocations,
                   emailLocationPatterns, learningPatterns>>
    /\ UNCHANGED ingestVars

ApproveSave(r) ==
    /\ reqs[r].kind = "approve"
    /\ reqs[r].pc = "created"
    /\ LET id == reqs[r].id
           d == reqs[r].doc[1]
           cd == reqs[r].cd
       IN IF id \in DOMAIN pend
          THEN /\ pend' = [pend EXCEPT ![id] = ApprovedDoc(@, reqs[r].txn, cd)]
               /\ merchantLocations' = RouteLearnMerchantLocation(merchantLocations, d, cd, {})
               /\ emailLocationPatterns' =
                      RouteLearnEmailLocation(emailLocationPatterns, d, cd, {})
               /\ merchantPatterns' = RouteLearnMerchantPattern(merchantPatterns, d, cd, {})
               /\ learningPatterns' = RouteLearnPattern(learningPatterns, d, cd, {})
               /\ reqs' = [reqs EXCEPT ![r] =
                             [IdleReq EXCEPT !.kind = "approve", !.pc = "done", !.code = 200,
                                             !.id = id, !.txn = reqs[r].txn]]
          ELSE /\ reqs' = [reqs EXCEPT ![r] =
                             [IdleReq EXCEPT !.kind = "approve", !.pc = "done", !.code = 500]]
               /\ UNCHANGED <<pend, merchantLocations, emailLocationPatterns,
                              merchantPatterns, learningPatterns>>
    /\ UNCHANGED <<nextPid, txns, now, emailParsingPatterns>>
    /\ UNCHANGED ingestVars

RejectFind(r, u, id, reason) ==
    /\ reqs[r].pc = "idle"
    /\ reqs' = [reqs EXCEPT ![r] =
                  IF FindOnePending(pend, u, id)
                  THEN [IdleReq EXCEPT !.kind = "reject", !.pc = "found", !.user = u,
                                       !.id = id, !.reason = reason]
                  ELSE [IdleReq EXCEPT !.kind = "reject", !.pc = "done", !.code = 404]]
    /\ UNCHANGED <<pend, nextPid, txns, now>>
    /\ UNCHANGED <<learnVars, ingestVars>>

RejectSave(r) ==
    /\ reqs[r].kind = "reject"
    /\ reqs[r].pc = "found"
    /\ LET id == reqs[r].id
       IN IF id \in DOMAIN pend
          THEN /\ pend' = [pend EXCEPT ![id] = RejectedDoc(@, reqs[r].reason)]
               /\ reqs' = [reqs EXCEPT ![r] =
                             [IdleReq EXCEPT !.kind = "reject", !.pc = "done", !.code = 200,
                                             !.id = id]]
          ELSE /\ reqs' = [reqs EXCEPT ![r] =
                             [IdleReq EXCEPT !.kind = "reject", !.pc = "done", !.code = 500]]
               /\ UNCHANGED pend
    /\ UNCHANGED <<nextPid, txns, now>>
    /\ UNCHANGED <<learnVars, ingestVars>>

(* no handler is between two of its awaits *)
Quiescent == \A r \in ReqIds : reqs[r].pc \in {"idle", "done"}

NextRace ==
    \/ \E u \in Users, c \in IngestChoices : CreatePending(u, c[1], c[2])
    \/ \E r \in ReqIds, u \in Users, id \in PendIds, cd \in CorrectedChoices :
          ApproveFind(r, u, id, cd)
    \/ \E r \in ReqIds : ApproveCreate(r)
    \/ \E r \in ReqIds : ApproveSave(r)
    \/ \E r \in ReqIds, u \in Users, id \in PendIds, reason \in Reasons :
          RejectFind(r, u, id, reason)
    \/ \E r \in ReqIds : RejectSave(r)
    \/ Tick
    \/ ExpireOldTransactions
    \/ TtlMonitor

SpecRace == Init /\ [][NextRace]_vars

(***************************************************************************)
(* Ingestion: the SMS webhook and the e-mail pollers.  A message is given  *)
(* by what the parser extracts from it.                                    *)
(***************************************************************************)
SmsChoices ==
    { [amount |-> 250, merchant |-> "Dominos", method |-> "upi", receivedAt |-> 0],
      [amount |-> 250, merchant |-> "Dominos", method |-> "upi", receivedAt |-> NoNum],
      [amount |-> NoNum, merchant |-> "Unknown", method |-> "other", receivedAt |-> NoNum] }

Midnight ==
    /\ today < MaxDay
    /\ today' = today + 1
    /\ UNCHANGED <<pend, nextPid, txns, now, reqs, ret, deliveries, inbox, processedEmailIds,
                   gmail, processedMessageIds, reply>>
    /\ UNCHANGED learnVars

(* txnDate = receivedAt ? new Date(receivedAt) : new Date(), as toISOString().slice(0, 10) *)
TxnDate(m) == IF m.receivedAt = NoNum THEN today ELSE m.receivedAt

(* sha256 of `${amount}_${merchant}_${dateStr}` *)
SmsHash(m) == <<m.amount, m.merchant, TxnDate(m)>>

(* Transaction.findOne({ user, messageHash }): the matching documents *)
FindByHash(store, u, h) ==
    { i \in DOMAIN store : store[i].user = u /\ store[i].messageHash = h }

(* the document findOne returns: the first in insertion order *)
FirstOf(S) == CHOOSE i \in S : \A j \in S : i <= j

(* new Transaction({...}) of the webhook *)
SmsTransaction(u, m, h) ==
    [user |-> u, amount |-> m.amount, category |-> "Food", merchant |-> m.merchant,
     paymentMethod |-> m.method, timestamp |-> h[3], source |-> "sms",
     location |-> [type |-> "unknown", lat |-> NoNum, lng |-> NoNum, source |-> "unknown"],
     messageHash |-> h, fromPending |-> 0]

(* the Transactions of user u that carry the amount, merchant and day of key *)
KeyRecords(store, u, key) ==
    { i \in DOMAIN store : /\ store[i].user = u
                           /\ store[i].source = "sms"
                           /\ store[i].amount = key[1]
                           /\ store[i].merchant = key[2]
                           /\ store[i].timestamp = key[3] }

SmsReply(u, m, code, dup, txn) ==
    [handled |-> TRUE, code |-> code, duplicate |-> dup, txn |-> txn, user |-> u,
     key |-> SmsHash(m), existed |-> KeyRecords(txns, u, SmsHash(m)) # {}]

(* handleSmsWebhook of controllers/smsWebhook.controller.js, one request *)
HandleSmsWebhook(u, m) ==
    /\ LET h == SmsHash(m)
           found == FindByHash(txns, u, h)
       IN IF m.amount = NoNum
          THEN /\ reply' = [NoReply EXCEPT !.code = 400]
               /\ UNCHANGED txns
          ELSE IF found # {}
               THEN /\ reply' = SmsReply(u, m, 200, TRUE, FirstOf(found))
                    /\ UNCHANGED txns
               ELSE /\ Len(txns) < MaxIngest
                    /\ txns' = Append(txns, SmsTransaction(u, m, h))
                    /\ reply' = SmsReply(u, m, 200, FALSE, Len(txns) + 1)
    /\ UNCHANGED <<pend, nextPid, now, reqs, ret, deliveries, inbox, processedEmailIds,
                   gmail, processedMessageIds, today>>
    /\ UNCHANGED learnVars

(* the identifiers in scope in the handler that uses the shared parser:    *)
(* the request fields, parsedData and the names its destructuring binds    *)
SharedScope ==
    {"message", "sender", "receivedAt", "lat", "lng", "parsedData", "finalAmount",
     "merchant", "paymentMethod", "category", "subCategory", "txnDate", "dateStr",
     "dedupeKey", "messageHash", "isDuplicate", "location"}

(* reading an identifier that is not in scope throws a ReferenceError *)
Throws(name) == name \notin SharedScope

(* handleSmsWebhook in its revision on parseTransactionMessage, one request; *)
(* the catch of the handler turns any throw into a 500                       *)
HandleSmsWebhookShared(u, m) ==
    /\ LET h == SmsHash(m)
           found == FindByHash(txns, u, h)
       IN IF m.amount = NoNum
          THEN /\ reply' = [NoReply EXCEPT !.code = 400]
               /\ UNCHANGED txns
          ELSE IF Throws("amount")
               THEN /\ reply' = SmsReply(u, m, 500, FALSE, 0)
                    /\ UNCHANGED txns
               ELSE IF found # {}
                    THEN /\ reply' = SmsReply(u, m, 200, TRUE, FirstOf(found))
                         /\ UNCHANGED txns
                    ELSE IF Throws("detectedPaymentMethod")
                         THEN /\ reply' = SmsReply(u, m, 500, FALSE, 0)
                              /\ UNCHANGED txns
                         ELSE /\ Len(txns) < MaxIngest
                              /\ txns' = Append(txns, SmsTransaction(u, m, h))
                              /\ reply' = SmsReply(u, m, 200, FALSE, Len(txns) + 1)
    /\ UNCHANGED <<pend, nextPid, now, reqs, ret, deliveries, inbox, processedEmailIds,
                   gmail, processedMessageIds, today>>
    /\ UNCHANGED learnVars

(***************************************************************************)
(* EmailPollerService (forwarding inbox): fetchAndProcessEmails and        *)
(* processEmail                                                            *)
(***************************************************************************)
EmailChoices ==
    { [id |-> "e1", from |-> "u1", amount |-> 250, merchant |-> "Dominos", timestamp |-> 0],
      [id |-> "e2", from |-> "u1", amount |-> 250, merchant |-> "Dominos", timestamp |-> 0],
      [id |-> "e3", from |-> "stranger", amount |-> 250, merchant |-> "Dominos",
       timestamp |-> 0] }

(* User.findOne({ email: senderEmail }) *)
EmailUser(from) == IF from \in Users THEN from ELSE None

(* sha256 of `${amount}_${merchant}_${dateStr}_${user.id}`, dateStr the day of processing *)
EmailHash(e, u) == <<e.amount, e.merchant, today, u>>

(* PendingTransaction.findOne({ user, 'source.emailId': messageHash }) *)
FindPendingByEmailId(store, u, h) ==
    { i \in DOMAIN store : /\ store[i].user = u
                           /\ store[i].source.type = "email"
                           /\ store[i].source.emailId = h }

EmailPending(u, e, h) ==
    [NewPending(u, [amount |-> e.amount, type |-> "expense", category |-> "Other",
                    merchant |-> e.merchant, paymentMethod |-> "upi", coords |-> <<>>],
                [type |-> "email", emailId |-> h, from |-> e.from,
                 rawContent |-> PlainText])
       EXCEPT !.date = e.timestamp]

(* processEmail on the collection st = [pend, nextPid] *)
ProcessEmail(st, e) ==
    LET u == EmailUser(e.from)
    IN IF u = None THEN st
       ELSE IF FindPendingByEmailId(st.pend, u, EmailHash(e, u)) # {} THEN st
            ELSE [pend |-> st.pend @@ (st.nextPid :> EmailPending(u, e, EmailHash(e, u))),
                  nextPid |-> st.nextPid + 1]

Range(seq) == { seq[i] : i \in DOMAIN seq }

(* processedEmailIds.add(id), then the eviction of the oldest beyond the cap *)
AddProcessed(seq, id) ==
    LET added == IF id \in Range(seq) THEN seq ELSE Append(seq, id)
    IN IF Len(added) > ProcessedCap THEN Tail(added) ELSE added

RECURSIVE EmailLoop(_, _, _)
EmailLoop(st, processed, emails) ==
    IF emails = <<>> THEN [pend |-> st.pend, nextPid |-> st.nextPid, processed |-> processed]
    ELSE EmailLoop(ProcessEmail(st, Head(emails)),
                   AddProcessed(processed, Head(emails).id), Tail(emails))

EmailArrive(e) ==
    /\ e \notin Range(inbox)
    /\ inbox' = Append(inbox, e)
    /\ UNCHANGED <<pend, nextPid, txns, now, reqs, ret, deliveries, processedEmailIds,
                   gmail, processedMessageIds, today, reply>>
    /\ UNCHANGED learnVars

FetchAndProcessEmails ==
    /\ nextPid <= MaxIngest
    /\ LET newEmails == SelectSeq(inbox, LAMBDA e : e.id \notin Range(processedEmailIds))
           r == EmailLoop([pend |-> pend, nextPid |-> nextPid], processedEmailIds, newEmails)
       IN /\ pend' = r.pend
          /\ nextPid' = r.nextPid
          /\ processedEmailIds' = r.processed
    /\ UNCHANGED <<txns, now, reqs, ret, deliveries, inbox, gmail, processedMessageIds,
                   today, reply>>
    /\ UNCHANGED learnVars

(* the server process starts again: the pollers' in-memory sets are empty *)
RestartPollers ==
    /\ processedEmailIds' = <<>>
    /\ processedMessageIds' = [u \in Users |-> {}]
    /\ UNCHANGED <<pend, nextPid, txns, now, reqs, ret, deliveries, inbox, gmail, today, reply>>
    /\ UNCHANGED learnVars

NextIngest ==
    \/ \E u \in Users, m \in SmsChoices : HandleSmsWebhook(u, m)
    \/ \E u \in Users, m \in SmsChoices : HandleSmsWebhookShared(u, m)
    \/ \E e \in EmailChoices : EmailArrive(e)
    \/ FetchAndProcessEmails
    \/ RestartPollers
    \/ Midnight

SpecIngest == Init /\ [][NextIngest]_vars

(***************************************************************************)
(* SpecLive: what runs without any request.  The server's startup starts   *)
(* the e-mail poller and nothing else: no timer, job or route calls        *)
(* expireOldTransactions.  Mail arrives, the poller polls, the process may *)
(* restart; the clocks advance and MongoDB's TTL monitor runs by           *)
(* themselves, which is the fairness stated.                               *)
(***************************************************************************)
(* the _ids the poller can give out within the bound *)
IngestIds == 1..(MaxIngest + Cardinality(EmailChoices))

NextLive ==
    \/ \E e \in EmailChoices : EmailArrive(e)
    \/ FetchAndProcessEmails
    \/ RestartPollers
    \/ Midnight
    \/ Tick
    \/ TtlMonitor

SpecLive == Init /\ [][NextLive]_vars /\ WF_vars(Tick) /\ WF_vars(TtlMonitor)

(***************************************************************************)
(* MultiUserGmailPollerService: processUserEmails with processMessage,     *)
(* storeFailedParsing and markAsRead.  One poll cycle of one user is one   *)
(* step.  Each mailbox stays below the page size of messages.list.         *)
(***************************************************************************)
GmailOrder == <<"m1", "m2">>

(* whether parseBankEmail / parseTransactionMessage get a transaction out of it *)
GmailParsed(m) == m = "m1"

(* what processMessage (parsed) or storeFailedParsing (not parsed) creates *)
GmailPending(u, m) ==
    IF GmailParsed(m)
    THEN NewPending(u, [amount |-> 250, type |-> "expense", category |-> "Food",
                        merchant |-> "DOMINOS", paymentMethod |-> "upi", coords |-> <<>>],
                    [type |-> "gmail", emailId |-> m, from |-> "Alerts@Bank.com",
                     rawContent |-> AddressText])
    ELSE NewPending(u, [amount |-> 0, type |-> "expense", category |-> "Other",
                        merchant |-> "Unknown", paymentMethod |-> None, coords |-> <<>>],
                    [type |-> "gmail", emailId |-> m, from |-> "Alerts@Bank.com",
                     rawContent |-> AddressText])

GmailArrive(u, m) ==
    /\ gmail[u][m] = "absent"
    /\ gmail' = [gmail EXCEPT ![u][m] = "unread"]
    /\ UNCHANGED <<pend, nextPid, txns, now, reqs, ret, deliveries, inbox, processedEmailIds,
                   processedMessageIds, today, reply>>
    /\ UNCHANGED learnVars

(* the loop over the listed messages; st = [pend, nextPid, processed, box].  *)
(* failAfterWrite: the messages whose processMessage throws after            *)
(* PendingTransaction.create; markFails: those whose messages.modify fails   *)
RECURSIVE GmailLoop(_, _, _, _, _)
GmailLoop(st, u, msgs, failAfterWrite, markFails) ==
    IF msgs = <<>> THEN st
    ELSE LET m == Head(msgs)
             created == [st EXCEPT !.pend = st.pend @@ (st.nextPid :> GmailPending(u, m)),
                                   !.nextPid = @ + 1]
         IN IF m \in st.processed
            THEN GmailLoop(st, u, Tail(msgs), failAfterWrite, markFails)
            ELSE IF GmailParsed(m) /\ m \in failAfterWrite
                 THEN GmailLoop(created, u, Tail(msgs), failAfterWrite, markFails)
                 ELSE GmailLoop(
                         [created EXCEPT
                             !.processed = @ \cup {m},
                             !.box = IF m \in markFails THEN @ ELSE [@ EXCEPT ![m] = "read"]],
                         u, Tail(msgs), failAfterWrite, markFails)

ProcessUserEmails(u, failAfterWrite, markFails) ==
    /\ nextPid <= MaxIngest
    /\ LET msgs == SelectSeq(GmailOrder, LAMBDA m : gmail[u][m] = "unread")
           r == GmailLoop([pend |-> pend, nextPid |-> nextPid,
                           processed |-> processedMessageIds[u], box |-> gmail[u]],
                          u, msgs, failAfterWrite, markFails)
       IN /\ pend' = r.pend
          /\ nextPid' = r.nextPid
          /\ processedMessageIds' = [processedMessageIds EXCEPT ![u] = r.processed]
          /\ gmail' = [gmail EXCEPT ![u] = r.box]
    /\ UNCHANGED <<txns, now, reqs, ret, deliveries, inbox, processedEmailIds, today, reply>>
    /\ UNCHANGED learnVars

NextGmail ==
    \/ \E u \in Users, m \in GmailIds : GmailArrive(u, m)
    \/ \E u \in Users, fw \in SUBSET GmailIds, mf \in SUBSET GmailIds :
          ProcessUserEmails(u, fw, mf)
    \/ RestartPollers

SpecGmail == Init /\ [][NextGmail]_vars

(***************************************************************************)
(* SpecDeliver: deliveries of a message running side by side (several      *)
(* requests, several poller instances), one step per database round trip:  *)
(* the duplicate lookup, then the insert.  No index of Transaction or      *)
(* PendingTransaction is unique on the hash, so the insert never fails.    *)
(***************************************************************************)
SmsFind(k, u, m) ==
    /\ deliveries[k].pc = "idle"
    /\ deliveries' = [deliveries EXCEPT ![k] =
          IF m.amount = NoNum
          THEN [IdleDelivery EXCEPT !.kind = "sms", !.pc = "done", !.code = 400]
          ELSE IF FindByHash(txns, u, SmsHash(m)) # {}
               THEN [IdleDelivery EXCEPT !.kind = "sms", !.pc = "done", !.code = 200]
               ELSE [IdleDelivery EXCEPT !.kind = "sms", !.pc = "insert", !.user = u,
                                         !.hash = SmsHash(m), !.body = m]]
    /\ UNCHANGED <<pend, nextPid, txns, now, reqs, ret, inbox, processedEmailIds,
                   gmail, processedMessageIds, today, reply>>
    /\ UNCHANGED learnVars

SmsSave(k) ==
    /\ deliveries[k].kind = "sms"
    /\ deliveries[k].pc = "insert"
    /\ txns' = Append(txns, SmsTransaction(deliveries[k].user, deliveries[k].body,
                                           deliveries[k].hash))
    /\ deliveries' = [deliveries EXCEPT ![k] =
                        [IdleDelivery EXCEPT !.kind = "sms", !.pc = "done", !.code = 200]]
    /\ UNCHANGED <<pend, nextPid, now, reqs, ret, inbox, processedEmailIds,
                   gmail, processedMessageIds, today, reply>>
    /\ UNCHANGED learnVars

EmailFind(k, e) ==
    /\ deliveries[k].pc = "idle"
    /\ LET u == EmailUser(e.from)
       IN deliveries' = [deliveries EXCEPT ![k] =
             IF u = None
             THEN [IdleDelivery EXCEPT !.kind = "email", !.pc = "done"]
             ELSE IF FindPendingByEmailId(pend, u, EmailHash(e, u)) # {}
                  THEN [IdleDelivery EXCEPT !.kind = "email", !.pc = "done"]
                  ELSE [IdleDelivery EXCEPT !.kind = "email", !.pc = "insert", !.user = u,
                                            !.hash = EmailHash(e, u), !.body = e]]
    /\ UNCHANGED <<pend, nextPid, txns, now, reqs, ret, inbox, processedEmailIds,
                   gmail, processedMessageIds, today, reply>>
    /\ UNCHANGED learnVars

EmailCreate(k) ==
    /\ deliveries[k].kind = "email"
    /\ deliveries[k].pc = "insert"
    /\ pend' = pend @@ (nextPid :> EmailPending(deliveries[k].user, deliveries[k].body,
                                                deliveries[k].hash))
    /\ nextPid' = nextPid + 1
    /\ deliveries' = [deliveries EXCEPT ![k] =
                        [IdleDelivery EXCEPT !.kind = "email", !.pc = "done"]]
    /\ UNCHANGED <<txns, now, reqs, ret, inbox, processedEmailIds,
                   gmail, processedMessageIds, today, reply>>
    /\ UNCHANGED learnVars

NextDeliver ==
    \/ \E k \in DeliveryIds, u \in Users, m \in SmsChoices : SmsFind(k, u, m)
    \/ \E k \in DeliveryIds : SmsSave(k)
    \/ \E k \in DeliveryIds, e \in EmailChoices : EmailFind(k, e)
    \/ \E k \in DeliveryIds : EmailCreate(k)
    \/ Midnight

SpecDeliver == Init /\ [][NextDeliver]_vars

(***************************************************************************)
(* Properties                                                              *)
(***************************************************************************)
(* the Transactions approve() created from PendingTransaction id *)
TxFrom(id) == { i \in DOMAIN txns : txns[i].fromPending = id }

TerminalStatus == {"approved", "rejected", "expired"}

(* C1: with the review requests served one after the other, once an        *)
(* approve of an id has created its Transaction, every further approve of  *)
(* that id is answered 404 (not found or already processed), and no id     *)
(* ever has more than one Transaction created from it.                     *)
C1_SecondApproveAlreadyProcessed ==
    \A id \in PendIds :
        /\ Cardinality(TxFrom(id)) <= 1
        /\ TxFrom(id) # {} =>
              \A u \in Users, cd \in CorrectedChoices, f \in FailChoices :
                  ApproveResponse(u, id, cd, f).code = 404

(* C1, its case: an approved record with its one Transaction, on which a   *)
(* second approve by its owner gets the 404                                *)
C1_Witness ==
    \E id \in DOMAIN pend :
        /\ pend[id].status = "approved"
        /\ Cardinality(TxFrom(id)) = 1
        /\ ApproveResponse(pend[id].user, id, NoCorrection, {}).code = 404

(* C2: a PendingTransaction that is approved, rejected or expired keeps    *)
(* that status through every later approve, reject, bulk-approve and       *)
(* expiry sweep, for as long as the document exists.                       *)
C2_TerminalStatusIsFinal ==
    [][\A id \in DOMAIN pend :
          (pend[id].status \in TerminalStatus /\ id \in DOMAIN pend')
             => pend'[id].status = pend[id].status]_vars

(* C2, its case: a rejected record whose expiresAt has passed, which the   *)
(* sweep would pick by its date alone                                      *)
C2_Witness ==
    \E id \in DOMAIN pend : pend[id].status = "rejected" /\ pend[id].expiresAt < now

(* C3: whatever the interleaving of the deliveries of one message of one   *)
(* user, at most one Transaction and at most one PendingTransaction carry  *)
(* that user's hash of the message.                                        *)
C3_OneRecordPerUserAndHash ==
    /\ \A i, j \in DOMAIN txns :
          (txns[i].user = txns[j].user /\ txns[i].messageHash # <<>>
             /\ txns[i].messageHash = txns[j].messageHash) => i = j
    /\ \A i, j \in DOMAIN pend :
          (pend[i].user = pend[j].user /\ pend[i].source.type = "email"
             /\ pend[j].source.type = "email"
             /\ pend[i].source.emailId = pend[j].source.emailId) => i = j

(* C4: after a delivery of a parsable message to the SMS webhook, exactly  *)
(* one Transaction of that user carries its amount, merchant and date, the *)
(* reply is a 200 that returns this record, and the reply says duplicate   *)
(* when the record was there before the delivery; the forwarded e-mails    *)
(* leave at most one PendingTransaction per user and hash.                 *)
C4_SecondDeliveryIsDuplicate ==
    /\ reply.handled =>
          /\ reply.code = 200
          /\ KeyRecords(txns, reply.user, reply.key) = {reply.txn}
          /\ reply.existed => reply.duplicate
    /\ \A i, j \in DOMAIN pend :
          (pend[i].user = pend[j].user /\ pend[i].source.type = "email"
             /\ pend[j].source.type = "email"
             /\ pend[i].source.emailId = pend[j].source.emailId
             /\ pend[i].date = pend[j].date) => i = j

(* C5: over any sequence of poll cycles of the multi-user Gmail poller, at *)
(* most one PendingTransaction exists per user and Gmail message id.       *)
C5_OnePendingPerGmailMessage ==
    \A i, j \in DOMAIN pend :
        (pend[i].user = pend[j].user /\ pend[i].source.type = "gmail"
           /\ pend[j].source.type = "gmail"
           /\ pend[i].source.emailId = pend[j].source.emailId) => i = j

(* C6: the Transaction of a record approved without correctedData has the  *)
(* amount, category, merchant, paymentMethod, timestamp, coordinates and   *)
(* source of the record's parsedData.                                      *)
C6_ApprovedFieldsEqualParsed ==
    \A id \in DOMAIN pend :
        (/\ pend[id].status = "approved"
         /\ ~pend[id].feedback.corrected.present
         /\ pend[id].approvedTransaction \in DOMAIN txns)
        => LET t == txns[pend[id].approvedTransaction]
               p == pend[id].parsed
           IN /\ t.amount = p.amount
              /\ t.category = p.category
              /\ t.merchant = p.merchant
              /\ t.paymentMethod = p.paymentMethod
              /\ t.timestamp = pend[id].date
              /\ t.source = pend[id].source.type
              /\ Len(p.coords) = 2 => (t.location.lat = p.coords[2]
                                        /\ t.location.lng = p.coords[1])
              /\ Len(p.coords) # 2 => (t.location.lat = NoNum /\ t.location.lng = NoNum)

(* C7: whenever no review request is between two of its database calls, a  *)
(* PendingTransaction is approved exactly if a Transaction created from it *)
(* exists, and then approvedTransaction is such a Transaction; so pending, *)
(* rejected and expired records have none.                                 *)
C7_ApprovedIffTransaction ==
    Quiescent =>
        \A id \in DOMAIN pend :
            /\ (pend[id].status = "approved") <=> (TxFrom(id) # {})
            /\ pend[id].status = "approved" => pend[id].approvedTransaction \in TxFrom(id)

(* C8: an approve whose learning-store writes fail is answered as the same *)
(* approve with no failure, and, where that answer is a 200, it creates    *)
(* the Transaction, marks the record approved and references the           *)
(* Transaction from it.                                                    *)
C8_LearningFailureIsOnlyLogged ==
    \A u \in Users, id \in PendIds, cd \in CorrectedChoices, f \in FailChoices :
        LET o == ApproveOutcome(u, id, cd, f)
            ok == ApproveOutcome(u, id, cd, {})
        IN /\ o.code = ok.code
           /\ o.txn = ok.txn
           /\ o.txns = ok.txns
           /\ o.pend = ok.pend
           /\ ok.code = 200 =>
                 /\ o.txns = Append(txns, NewTransaction(id, pend[id], cd))
                 /\ o.txn = Len(o.txns)
                 /\ o.pend[id].status = "approved"
                 /\ o.pend[id].approvedTransaction = o.txn

(* C8, its case: a record approved with a correction while no              *)
(* LearningPattern was written, which only a failed write leaves           *)
C8_Witness ==
    \E id \in DOMAIN pend :
        /\ pend[id].status = "approved"
        /\ pend[id].feedback.corrected.present
        /\ pend[id].approvedTransaction \in TxFrom(id)
        /\ learningPatterns = <<>>

(* C9: a PendingTransaction that is pending after its expiresAt has passed *)
(* eventually has status expired, and is still there with that status.     *)
C9_OverdueEventuallyExpired ==
    \A id \in IngestIds :
        (id \in DOMAIN pend /\ pend[id].status = "pending" /\ pend[id].expiresAt < now)
           ~> (id \in DOMAIN pend /\ pend[id].status = "expired")

(* C10: a run of the expiry sweep sets to expired exactly the records that *)
(* are pending with expiresAt before now, changes nothing else, and leaves *)
(* nothing for a second run at the same time to change.                    *)
C10_SweepFlipsExactlyOverdue ==
    [][ExpireOldTransactions =>
          /\ DOMAIN pend' = DOMAIN pend
          /\ \A i \in DOMAIN pend :
                pend'[i] = IF pend[i].status = "pending" /\ pend[i].expiresAt < now
                           THEN [pend[i] EXCEPT !.status = "expired"]
                           ELSE pend[i]
          /\ \A i \in DOMAIN pend' :
                ~(pend'[i].status = "pending" /\ pend'[i].expiresAt < now')
          /\ UNCHANGED <<nextPid, txns, now, learnVars, auxVars>>]_vars

(* C10, its case: a record the sweep has set to expired *)
C10_Witness ==
    \E id \in DOMAIN pend : pend[id].status = "expired"

(* C11: a reject of a pending record by its owner sets the record's status *)
(* to rejected, stores the feedback (approved: false) with the reason      *)
(* given, leaves every other PendingTransaction as it was, and leaves the  *)
(* Transaction collection and every learning store unchanged.              *)
C11_RejectOnlyTouchesTheRecord ==
    [][\A u \in Users, id \in PendIds, r \in Reasons :
          (FindOnePending(pend, u, id) /\ RejectRoute(u, id, r)) =>
              /\ DOMAIN pend' = DOMAIN pend
              /\ pend'[id].status = "rejected"
              /\ pend'[id].feedback.approved = "no"
              /\ pend'[id].feedback.notes = r
              /\ \A j \in DOMAIN pend \ {id} : pend'[j] = pend[j]
              /\ UNCHANGED <<txns, learnVars>>]_vars

(* C11, its case: a record rejected with a reason *)
C11_Witness ==
    \E id \in DOMAIN pend :
        pend[id].status = "rejected" /\ pend[id].feedback.notes = "wrong"

(***************************************************************************)
(* SpecPromote: several users review Gmail records of one bank sender.     *)
(* Every learning-store write succeeds.                                    *)
(***************************************************************************)
MaxPromote == 3      \* PendingTransactions created in the promotion specification

PromoteUsers == {"u1", "u2", "u3"}
PromoteIds == 1..MaxPromote

(* what processMessage stores for a mail of the bank sender *)
GmailCandidate ==
    [amount |-> 250, type |-> "expense", category |-> "Food",
     merchant |-> "DOMINOS", paymentMethod |-> "upi", coords |-> <<>>]

GmailIngest(u) ==
    /\ nextPid <= MaxPromote
    /\ pend' = pend @@ (nextPid :> NewPending(u, GmailCandidate, GmailSource))
    /\ nextPid' = nextPid + 1
    /\ UNCHANGED <<txns, now>>
    /\ UNCHANGED <<learnVars, auxVars>>

NextPromote ==
    \/ \E u \in PromoteUsers : GmailIngest(u)
    \/ \E u \in PromoteUsers, id \in PromoteIds, cd \in CorrectedChoices :
          ApproveRoute(u, id, cd, {})

SpecPromote == Init /\ [][NextPromote]_vars

(* the users whose corrections of the domain's mails agree on key *)
CorrectingUsers(domain, key) ==
    { emailParsingPatterns[i].user : i \in
        { j \in DOMAIN emailParsingPatterns :
            /\ ~emailParsingPatterns[j].isGlobal
            /\ emailParsingPatterns[j].senderDomain = domain
            /\ GroupKey(emailParsingPatterns[j]) = key } }

(* C12: once three distinct users have approved a Gmail record of the same *)
(* sender with the same corrected amount, type and merchant, a global      *)
(* EmailParsingPattern of the sender's domain exists with confirmedByUsers *)
(* 3 and confidence 0.85.                                                  *)
C12_ThreeUsersPromoteToGlobal ==
    \A i \in DOMAIN emailParsingPatterns :
        LET p == emailParsingPatterns[i]
        IN (~p.isGlobal /\ Cardinality(CorrectingUsers(p.senderDomain, GroupKey(p))) = 3)
           => \E g \in DOMAIN emailParsingPatterns :
                 /\ emailParsingPatterns[g].isGlobal
                 /\ emailParsingPatterns[g].senderDomain = p.senderDomain
                 /\ emailParsingPatterns[g].confirmedByUsers = 3
                 /\ emailParsingPatterns[g].confidence = 85

(***************************************************************************)
(* SpecPromoteRace: calls of EmailParsingPattern.promoteToGlobal running   *)
(* side by side, one step per database round trip: find the similar        *)
(* patterns, findOne the existing global pattern of a group, then create   *)
(* or save.  The collection starts with user patterns as the schema admits *)
(* them (confidence is any number from 0 to 1).                            *)
(***************************************************************************)
(* a stored user pattern of the bank sender with confidence 0.8 *)
StoredPattern(u, type, amount) ==
    [user |-> u, isGlobal |-> FALSE, confirmedByUsers |-> 1,
     sender |-> "alerts@bank.com", senderDomain |-> "bank.com",
     original |-> [amount |-> 250, type |-> "expense", merchant |-> "DOMINOS",
                   category |-> "Food", paymentMethod |-> "upi"],
     corrected |-> [amount |-> amount, type |-> type, merchant |-> "Dominos",
                    category |-> "Dining", paymentMethod |-> "card"],
     confidence |-> 80]

StoredStores ==
    { <<StoredPattern("u1", "expense", 300), StoredPattern("u2", "expense", 300)>>,
      <<StoredPattern("u1", "expense", 300), StoredPattern("u2", "expense", 300),
        StoredPattern("u3", "expense", 300)>>,
      <<StoredPattern("u1", "expense", 300), StoredPattern("u1", "income", 300),
        StoredPattern("u2", "expense", 300), StoredPattern("u2", "income", 300),
        StoredPattern("u3", "expense", 300), StoredPattern("u3", "income", 300)>>,
      <<StoredPattern("u1", "income", 300), StoredPattern("u1", "expense", 300),
        StoredPattern("u2", "expense", 300), StoredPattern("u3", "expense", 300)>>,
      <<StoredPattern("u1", "expense", 300), StoredPattern("u1", "expense", 400),
        StoredPattern("u2", "expense", 300), StoredPattern("u2", "expense", 400),
        StoredPattern("u3", "expense", 300), StoredPattern("u3", "expense", 400)>> }

(* the state after construction, on a given EmailParsingPattern collection *)
InitOn(patterns) ==
    /\ pend = <<>>
    /\ nextPid = 1
    /\ txns = <<>>
    /\ now = 0
    /\ emailParsingPatterns = patterns
    /\ merchantPatterns = <<>>
    /\ merchantLocations = <<>>
    /\ emailLocationPatterns = <<>>
    /\ learningPatterns = <<>>
    /\ reqs = [r \in ReqIds |-> IdleReq]
    /\ deliveries = [k \in DeliveryIds |-> IdleDelivery]
    /\ inbox = <<>>
    /\ processedEmailIds = <<>>
    /\ gmail = [u \in Users |-> [m \in GmailIds |-> "absent"]]
    /\ processedMessageIds = [u \in Users |-> {}]
    /\ today = 0
    /\ reply = NoReply
    /\ ret = NoRet

InitStored == \E s \in StoredStores : InitOn(s)

PromoteSenders == {"Alerts@Bank.com"}

(* this.find({ isGlobal: false, $or: [...], confidence: { $gt: 0.7 } }) and the grouping *)
PromoteFind(r, sender) ==
    /\ reqs[r].pc = "idle"
    /\ LET domain == SenderDomain(sender)
           idx == SortedIdx(SimilarPatterns(emailParsingPatterns, domain, sender))
       IN reqs' = [reqs EXCEPT ![r] =
             [IdleReq EXCEPT !.kind = "promote", !.pc = "loop",
                             !.doc = [sim |-> [k \in DOMAIN idx |-> emailParsingPatterns[idx[k]]],
                                      keys |-> GroupKeys(emailParsingPatterns, idx),
                                      domain |-> domain, g |-> 0]]]
    /\ UNCHANGED <<pend, nextPid, txns, now>>
    /\ UNCHANGED <<learnVars, ingestVars>>

(* the members of the group of key among the patterns read *)
GroupMembers(sim, key) == SelectSeq(sim, LAMBDA p : GroupKey(p) = key)

GroupUsers(sim, key) ==
    { GroupMembers(sim, key)[k].user : k \in DOMAIN GroupMembers(sim, key) } \ {None}

(* this.findOne({ isGlobal: true, senderDomain, 'correctedData.type' }) *)
ExistingGlobal(store, domain, type) ==
    { g \in DOMAIN store : /\ store[g].isGlobal
                           /\ store[g].senderDomain = domain
                           /\ store[g].corrected.type = type }

(* the head of the loop over the groups, up to the findOne of a group of 3+ users *)
PromoteLookup(r) ==
    /\ reqs[r].kind = "promote"
    /\ reqs[r].pc = "loop"
    /\ LET d == reqs[r].doc
       IN IF d.keys = <<>>
          THEN reqs' = [reqs EXCEPT ![r] = [IdleReq EXCEPT !.kind = "promote", !.pc = "done"]]
          ELSE IF Cardinality(GroupUsers(d.sim, Head(d.keys))) < PromoteMinUsers
               THEN reqs' = [reqs EXCEPT ![r].doc.keys = Tail(d.keys)]
               ELSE LET rep == GroupMembers(d.sim, Head(d.keys))[1]
                        found == ExistingGlobal(emailParsingPatterns, d.domain,
                                                rep.corrected.type)
                    IN IF found = {}
                       THEN reqs' = [reqs EXCEPT ![r].pc = "create"]
                       ELSE reqs' = [reqs EXCEPT ![r].pc = "update",
                                                 ![r].doc.g = FirstOf(found)]
    /\ UNCHANGED <<pend, nextPid, txns, now>>
    /\ UNCHANGED <<learnVars, ingestVars>>

(* this.create({ isGlobal: true, ... }); return true *)
PromoteCreate(r) ==
    /\ reqs[r].kind = "promote"
    /\ reqs[r].pc = "create"
    /\ LET d == reqs[r].doc
           rep == GroupMembers(d.sim, Head(d.keys))[1]
           n == Cardinality(GroupUsers(d.sim, Head(d.keys)))
       IN emailParsingPatterns' =
             Append(emailParsingPatterns,
                    [user |-> None, isGlobal |-> TRUE, confirmedByUsers |-> n,
                     sender |-> rep.sender, senderDomain |-> rep.senderDomain,
                     original |-> rep.original, corrected |-> rep.corrected,
                     confidence |-> GlobalConfidence(n)])
    /\ reqs' = [reqs EXCEPT ![r] = [IdleReq EXCEPT !.kind = "promote", !.pc = "done",
                                                   !.code = 200]]
    /\ UNCHANGED <<pend, nextPid, txns, now, merchantPatterns, merchantLocations,
                   emailLocationPatterns, learningPatterns>>
    /\ UNCHANGED ingestVars

(* existingGlobal.save() with the refreshed count and confidence *)
PromoteSave(r) ==
    /\ reqs[r].kind = "promote"
    /\ reqs[r].pc = "update"
    /\ LET d == reqs[r].doc
           n == Cardinality(GroupUsers(d.sim, Head(d.keys)))
       IN /\ emailParsingPatterns' =
                [emailParsingPatterns EXCEPT ![d.g].confirmedByUsers = n,
                                             ![d.g].confidence = GlobalConfidence(n)]
          /\ reqs' = [reqs EXCEPT ![r].pc = "loop", ![r].doc.keys = Tail(d.keys)]
    /\ UNCHANGED <<pend, nextPid, txns, now, merchantPatterns, merchantLocations,
                   emailLocationPatterns, learningPatterns>>
    /\ UNCHANGED ingestVars

NextPromoteRace ==
    \/ \E r \in ReqIds, s \in PromoteSenders : PromoteFind(r, s)
    \/ \E r \in ReqIds : PromoteLookup(r)
    \/ \E r \in ReqIds : PromoteCreate(r)
    \/ \E r \in ReqIds : PromoteSave(r)

SpecPromoteRace == InitStored /\ [][NextPromoteRace]_vars

MaxStored == 4       \* patterns in the collection findPattern reads

(* a user pattern that matches the sender of the call, above the threshold *)
(* of the lookup that forgets whose pattern it is                          *)
IsUserMatchAnyOwner(p, u, sender) ==
    /\ ~p.isGlobal
    /\ (p.sender = LowerSender(sender) \/ p.senderDomain = SenderDomain(sender))
    /\ p.confidence > 60

(* { user: userId, isGlobal: false, $or: [sender, senderDomain], confidence: { $gt: 0.6 } } *)
IsUserMatch(p, u, sender) ==
    /\ p.user = u
    /\ ~p.isGlobal
    /\ (p.sender = LowerSender(sender) \/ p.senderDomain = SenderDomain(sender))
    /\ p.confidence > 60

(* { isGlobal: true, $or: [sender, senderDomain], confidence: { $gt: 0.7 } } *)
IsGlobalMatch(p, sender) ==
    /\ p.isGlobal
    /\ (p.sender = LowerSender(sender) \/ p.senderDomain = SenderDomain(sender))
    /\ p.confidence > 70

(* sort() by descending rank, equal ranks in insertion order, then limit(n) *)
RECURSIVE SortedByRank(_, _)
SortedByRank(S, rank) ==
    IF S = {} THEN <<>>
    ELSE LET m == CHOOSE x \in S :
                    \A y \in S : rank[x] > rank[y] \/ (rank[x] = rank[y] /\ x <= y)
         IN <<m>> \o SortedByRank(S \ {m}, rank)

Limit(seq, n) == SubSeq(seq, 1, Min(n, Len(seq)))

FindPattern(store, u, sender) ==
    LET users == { i \in DOMAIN store : IsUserMatch(store[i], u, sender) }
        globals == { i \in DOMAIN store : IsGlobalMatch(store[i], sender) }
        userPatterns == Limit(SortedByRank(users, [i \in users |-> store[i].confidence]), 3)
        globalPatterns ==
            Limit(SortedByRank(globals, [i \in globals |->
                                   1000 * store[i].confirmedByUsers + store[i].confidence]), 2)
    IN userPatterns \o globalPatterns

(* the documents a collection can hold for two senders *)
PatternPool ==
    { StoredPattern("u1", "expense", 300),
      [StoredPattern("u1", "expense", 400) EXCEPT !.confidence = 70],
      [StoredPattern("u1", "expense", 500) EXCEPT !.confidence = 60],
      StoredPattern("u2", "expense", 300),
      [StoredPattern("u1", "income", 300) EXCEPT !.sender = "noreply@shop.in",
                                                 !.senderDomain = "shop.in"],
      [StoredPattern(None, "expense", 300) EXCEPT !.isGlobal = TRUE,
                                                  !.confirmedByUsers = 3, !.confidence = 85],
      [StoredPattern(None, "income", 300) EXCEPT !.isGlobal = TRUE,
                                                 !.confirmedByUsers = 4, !.confidence = 70] }

PatternStores == UNION { [1..n -> PatternPool] : n \in 0..MaxStored }

InitFind == \E s \in PatternStores : InitOn(s)

FindSenders == {"Alerts@Bank.com", "noreply@shop.in"}

FindPatternCall(u, sender) ==
    /\ ret' = [kind |-> "patterns", user |-> u, sender |-> sender,
               result |-> FindPattern(emailParsingPatterns, u, sender)]
    /\ UNCHANGED <<pend, nextPid, txns, now, reqs, deliveries, inbox, processedEmailIds,
                   gmail, processedMessageIds, today, reply>>
    /\ UNCHANGED learnVars

NextFind == \E u \in Users, sender \in FindSenders : FindPatternCall(u, sender)

SpecFind == InitFind /\ [][NextFind]_vars

(* C14: the patterns findPattern returns for a user and sender are the     *)
(* user's own non-global patterns of confidence above 0.6 followed by      *)
(* global patterns of confidence above 0.7, no user pattern coming after a *)
(* global one and none owned by another user; a matching pattern above its *)
(* threshold is returned whenever the limit (3 user, 2 global) leaves room.*)
C14_UserPatternsFirstThenGlobal ==
    ret.kind = "patterns" =>
        LET res == ret.result
            store == emailParsingPatterns
            users == { k \in DOMAIN res : ~store[res[k]].isGlobal }
            globals == { k \in DOMAIN res : store[res[k]].isGlobal }
            sent(p) == \/ p.sender = LowerSender(ret.sender)
                       \/ p.senderDomain = SenderDomain(ret.sender)
        IN /\ \A k \in users : /\ store[res[k]].user = ret.user
                               /\ store[res[k]].confidence > 60
                               /\ sent(store[res[k]])
           /\ \A k \in globals : store[res[k]].confidence > 70 /\ sent(store[res[k]])
           /\ \A k \in users, l \in globals : k < l
           /\ \A k, l \in DOMAIN res : res[k] = res[l] => k = l
           /\ \A i \in DOMAIN store :
                 (/\ ~store[i].isGlobal /\ store[i].user = ret.user
                  /\ sent(store[i]) /\ store[i].confidence > 60
                  /\ Cardinality(users) < 3)
                 => \E k \in users : res[k] = i
           /\ \A i \in DOMAIN store :
                 (/\ store[i].isGlobal /\ sent(store[i]) /\ store[i].confidence > 70
                  /\ Cardinality(globals) < 2)
                 => \E k \in globals : res[k] = i

(* C14, its case: a lookup that returned a pattern of the user and a       *)
(* global pattern, from a collection that also holds a matching pattern of *)
(* another user and patterns at the thresholds                             *)
C14_Witness ==
    /\ ret.kind = "patterns"
    /\ \E k, l \in DOMAIN ret.result :
          /\ ~emailParsingPatterns[ret.result[k]].isGlobal
          /\ emailParsingPatterns[ret.result[l]].isGlobal
    /\ \E i \in DOMAIN emailParsingPatterns :
          /\ ~emailParsingPatterns[i].isGlobal
          /\ emailParsingPatterns[i].user # ret.user
          /\ emailParsingPatterns[i].senderDomain = SenderDomain(ret.sender)

(***************************************************************************)
(* LocationMatchingService.matchTransactionLocation and its lookups, with  *)
(* the stores filled by learnFromCorrection (the approve route's location  *)
(* learning) and by POST /merchant-locations/learn.  A location is the     *)
(* triple <<lat sum, lng sum, number of samples>> (an unreduced average).  *)
(***************************************************************************)
MaxLearned == 5
MaxCorrections == 1

MinVisitsForConfidence == 2
ConfidenceVeryHigh == 90
ConfidenceMedium == 50
ConfidenceMinimum == 40
TextHintConfidence == 30
BackgroundFullCount == 5
PatternLimit == 5

NoDoc == [found |-> FALSE]
NoMatch == [source |-> "none"]

(* MerchantLocation.findOne({ user, merchantKey, visits: { $gte: 2 }, confidence: { $gte: 0.5 } }) *)
GetLearnedMerchantLocationAnyRecord(store, u, merchantName) ==
    LET k == <<u, Lower(merchantName)>>
    IN IF k \in DOMAIN store
       THEN [found |-> TRUE, loc |-> <<store[k].latSum, store[k].lngSum, store[k].samples>>,
             visits |-> store[k].visits, confidence |-> store[k].confidence]
       ELSE NoDoc

GetLearnedMerchantLocation(store, u, merchantName) ==
    LET k == <<u, Lower(merchantName)>>
    IN IF /\ k \in DOMAIN store
          /\ store[k].visits >= MinVisitsForConfidence
          /\ store[k].confidence >= ConfidenceMedium
       THEN [found |-> TRUE, loc |-> <<store[k].latSum, store[k].lngSum, store[k].samples>>,
             visits |-> store[k].visits, confidence |-> store[k].confidence]
       ELSE NoDoc

(* the webhook's own lookup:  learned && learned.confidence >= 0.5 *)
WebhookLearnedLocation(store, u, merchantName) ==
    LET k == <<u, Lower(merchantName)>>
    IN IF k \in DOMAIN store /\ store[k].confidence >= ConfidenceMedium
       THEN [found |-> TRUE, loc |-> <<store[k].latSum, store[k].lngSum, store[k].samples>>,
             visits |-> store[k].visits, confidence |-> store[k].confidence]
       ELSE NoDoc

(* UserLocationHistory.getAverageLocationNearTime over the  nearby  samples *)
(* recorded within 15 minutes of the transaction, all taken at <<12, 77>>   *)
GetAverageLocationNearTime(nearby) ==
    IF nearby = 0 THEN NoDoc
    ELSE [found |-> TRUE, loc |-> <<12 * nearby, 77 * nearby, nearby>>, count |-> nearby,
          confidence |-> Min((nearby * 100) \div BackgroundFullCount, 100)]

MatchBackgroundLocation(nearby) ==
    LET location == GetAverageLocationNearTime(nearby)
    IN IF location.found /\ location.confidence >= ConfidenceMinimum THEN location ELSE NoDoc

(* EmailLocationPattern.findPatternForSender: the $or query, sorted, limit(5), lean() *)
FindPatternForSender(store, u, sender, merchantName) ==
    LET hit == { i \in DOMAIN store :
                   \/ store[i].user = u /\ store[i].sender = LowerSender(sender)
                   \/ store[i].isGlobal /\ store[i].senderDomain = SenderDomain(sender)
                   \/ merchantName # None /\ store[i].merchantKey = Lower(merchantName) }
    IN Limit(SortedByRank(hit, [i \in hit |-> 1000 * store[i].confidence
                                               + store[i].successfulExtractions]),
             PatternLimit)

(* the patterns of the result whose regex matches the text, in result order *)
MatchingPatterns(store, u, sender, emailContent, merchantName) ==
    SelectSeq(FindPatternForSender(store, u, sender, merchantName),
              LAMBDA i : /\ store[i].locationPattern # None
                         /\ RegexTest(store[i].locationPattern, emailContent))

(* recordSuccess, the instance method of a hydrated document *)
RecordSuccess(store, i) ==
    [store EXCEPT ![i] =
        [@ EXCEPT !.timesMatched = @ + 1,
                  !.successfulExtractions = @ + 1,
                  !.confidence = Min(((store[i].successfulExtractions + 1) * 100)
                                         \div (store[i].timesMatched + 1), 100)]]

(* matchEmailLocationPattern.  The patterns come from a lean() query, plain *)
(* objects without the schema's methods: on the first match the call of     *)
(* pattern.recordSuccess throws a TypeError, which the catch turns into     *)
(* null.  Nothing is saved on either path.                                  *)
MatchEmailLocationPattern(store, u, sender, emailContent, merchantName) ==
    LET matching == MatchingPatterns(store, u, sender, emailContent, merchantName)
    IN IF matching = <<>> THEN [found |-> FALSE, threw |-> FALSE]
       ELSE [found |-> FALSE, threw |-> TRUE]

NoParsed == [coords |-> <<>>, hint |-> None]
ParsedChoices ==
    { NoParsed, [coords |-> <<77, 12>>, hint |-> None], [coords |-> <<>>, hint |-> "MG Road"] }

(* calls for one user; the other user's learning is in the stores *)
MatchParams ==
    [userId : {"u1"}, merchantName : {"DOMINOS", None}, nearby : 0..2,
     emailSender : {"Alerts@Bank.com"}, emailContent : {AddressText, PlainText},
     parsedLocation : ParsedChoices]

MatchTransactionLocationBackgroundFirst(mstore, pstore, p) ==
    LET learned == IF p.merchantName # None
                   THEN GetLearnedMerchantLocation(mstore, p.userId, p.merchantName)
                   ELSE NoDoc
        background == MatchBackgroundLocation(p.nearby)
    IN IF p.parsedLocation.coords # <<>>
       THEN [source |-> "parsed_gps_coordinates", confidence |-> ConfidenceVeryHigh,
             loc |-> <<p.parsedLocation.coords[2], p.parsedLocation.coords[1], 1>>]
       ELSE IF background.found
       THEN [source |-> "background_location_history", confidence |-> background.confidence,
             loc |-> background.loc]
       ELSE IF learned.found
       THEN [source |-> "learned_merchant_location", confidence |-> learned.confidence,
             loc |-> learned.loc]
       ELSE IF p.parsedLocation.hint # None
       THEN [source |-> "text_hint", confidence |-> TextHintConfidence,
             hint |-> p.parsedLocation.hint]
       ELSE NoMatch

MatchTransactionLocation(mstore, pstore, p) ==
    LET learned == IF p.merchantName # None
                   THEN GetLearnedMerchantLocation(mstore, p.userId, p.merchantName)
                   ELSE NoDoc
        background == MatchBackgroundLocation(p.nearby)
        patternLocation ==
            IF p.emailSender # None /\ p.emailContent # None
            THEN MatchEmailLocationPattern(pstore, p.userId, p.emailSender, p.emailContent,
                                           p.merchantName)
            ELSE [found |-> FALSE, threw |-> FALSE]
    IN IF p.parsedLocation.coords # <<>>
       THEN [source |-> "parsed_gps_coordinates", confidence |-> ConfidenceVeryHigh,
             loc |-> <<p.parsedLocation.coords[2], p.parsedLocation.coords[1], 1>>]
       ELSE IF learned.found
       THEN [source |-> "learned_merchant_location", confidence |-> learned.confidence,
             loc |-> learned.loc]
       ELSE IF background.found
       THEN [source |-> "background_location_history", confidence |-> background.confidence,
             loc |-> background.loc]
       ELSE IF patternLocation.found
       THEN [source |-> "email_pattern", loc |-> patternLocation.loc]
       ELSE IF p.parsedLocation.hint # None
       THEN [source |-> "text_hint", confidence |-> TextHintConfidence,
             hint |-> p.parsedLocation.hint]
       ELSE NoMatch

MatchTransactionLocationCall(p) ==
    /\ ret' = [kind |-> "match", params |-> p,
               result |-> MatchTransactionLocation(merchantLocations, emailLocationPatterns, p)]
    /\ UNCHANGED <<pend, nextPid, txns, now, reqs, deliveries, inbox, processedEmailIds,
                   gmail, processedMessageIds, today, reply>>
    /\ UNCHANGED learnVars

(* learnFromCorrection as the approve route calls it: sender is the stored *)
(* source.emailId, emailContent the stored raw text, coordinates <<lng, lat>>; *)
(* it returns nothing                                                      *)
LearnFromCorrection(u, sender, emailContent, merchantName, coords) ==
    /\ Len(coords) = 2
    /\ merchantName # None => 
          (<<u, Lower(merchantName)>> \in DOMAIN merchantLocations
              => merchantLocations[<<u, Lower(merchantName)>>].visits < MaxLearned)
    /\ \A i \in DOMAIN emailLocationPatterns :
          emailLocationPatterns[i].timesMatched < MaxCorrections
    /\ merchantLocations' =
          IF merchantName # None
          THEN LearnMerchantLocation(merchantLocations, u, merchantName, coords[2], coords[1])
          ELSE merchantLocations
    /\ emailLocationPatterns' =
          IF sender # None /\ emailContent # None
          THEN LearnEmailLocation(emailLocationPatterns, u, LowerSender(sender), emailContent,
                                  merchantName, coords[2], coords[1])
          ELSE emailLocationPatterns
    /\ ret' = NoRet
    /\ UNCHANGED <<pend, nextPid, txns, now, emailParsingPatterns, merchantPatterns,
                   learningPatterns, reqs, deliveries, inbox, processedEmailIds, gmail,
                   processedMessageIds, today, reply>>

(* POST /merchant-locations/learn; a zero coordinate is falsy *)
LearnRoute(u, merchant, lat, lng) ==
    LET k == <<u, Lower(merchant)>>
    IN IF merchant = None \/ lat = 0 \/ lng = 0
       THEN /\ ret' = [kind |-> "learn", code |-> 400]
            /\ UNCHANGED merchantLocations
       ELSE /\ merchantLocations' = LearnMerchantLocation(merchantLocations, u, merchant, lat, lng)
            /\ ret' = [kind |-> "learn", code |-> 200,
                       visits |-> merchantLocations'[k].visits,
                       confidence |-> merchantLocations'[k].confidence]

LearnRouteCall(u, merchant, lat, lng) ==
    /\ <<u, Lower(merchant)>> \in DOMAIN merchantLocations
          => merchantLocations[<<u, Lower(merchant)>>].visits < MaxLearned
    /\ LearnRoute(u, merchant, lat, lng)
    /\ UNCHANGED <<pend, nextPid, txns, now, emailParsingPatterns, merchantPatterns,
                   emailLocationPatterns, learningPatterns, reqs, deliveries, inbox,
                   processedEmailIds, gmail, processedMessageIds, today, reply>>

NextMatch ==
    \/ \E p \in MatchParams : MatchTransactionLocationCall(p)
    \/ \E u \in Users, emailContent \in {AddressText, PlainText} :
          LearnFromCorrection(u, "m1", emailContent, "DOMINOS", <<78, 13>>)
    \/ \E u \in Users, lat \in {0, 13} : LearnRouteCall(u, "Dominos", lat, 78)

SpecMatch == Init /\ [][NextMatch]_vars

(***************************************************************************)
(* Long visit sequences for one (user, merchant): POST                     *)
(* /merchant-locations/learn with samples at two places, the approve       *)
(* route's learnFromCorrection, and DELETE /merchant-locations/:merchant.  *)
(* At most MaxFar retained samples lie at the second place.                *)
(***************************************************************************)
MaxVisits == 22
MaxFar == 1

VisitCoords == {<<13, 78>>, <<15, 80>>}

FarSamples(h) == Cardinality({ j \in DOMAIN h : h[j] = <<15, 80>> })

VisitRouteCall(u, merchant, lat, lng) ==
    LET k == <<u, Lower(merchant)>>
    IN /\ k \in DOMAIN merchantLocations => merchantLocations[k].visits < MaxVisits
       /\ LearnRoute(u, merchant, lat, lng)
       /\ FarSamples(merchantLocations'[k].visitHistory) <= MaxFar
       /\ UNCHANGED <<pend, nextPid, txns, now, emailParsingPatterns, merchantPatterns,
                      emailLocationPatterns, learningPatterns, reqs, deliveries, inbox,
                      processedEmailIds, gmail, processedMessageIds, today, reply>>

(* MerchantLocation.deleteOne({ user, merchantKey }) *)
DeleteMerchantLocation(u, merchant) ==
    LET k == <<u, Lower(merchant)>>
    IN /\ merchantLocations' = [x \in DOMAIN merchantLocations \ {k} |-> merchantLocations[x]]
       /\ ret' = [kind |-> "delete", code |-> 200]
       /\ UNCHANGED <<pend, nextPid, txns, now, emailParsingPatterns, merchantPatterns,
                      emailLocationPatterns, learningPatterns, reqs, deliveries, inbox,
                      processedEmailIds, gmail, processedMessageIds, today, reply>>

NextVisits ==
    \/ \E merchant \in {"Dominos", "DOMINOS"}, c \in VisitCoords :
          VisitRouteCall("u1", merchant, c[1], c[2])
    \/ \E emailContent \in {AddressText, PlainText} :
          LearnFromCorrection("u1", "m1", emailContent, "DOMINOS", <<78, 13>>)
    \/ DeleteMerchantLocation("u1", "Dominos")

SpecVisits == Init /\ [][NextVisits]_vars

(***************************************************************************)
(* C15: the location matcher tries parsed GPS, learned merchant location,  *)
(* background correlation, learned email pattern and text hint in that     *)
(* order and returns the first success: each result is returned exactly    *)
(* when its strategy succeeds and every earlier one failed, and parsed GPS *)
(* coordinates are returned with confidence 0.9 whatever the stores hold.  *)
(* ret holds the last call's parameters and result; every learning call    *)
(* replaces it, so the stores are those the call read.                     *)
(***************************************************************************)
C15_StrategiesInPriorityOrder ==
    ret.kind = "match" =>
             LET p == ret.params
                 r == ret.result
                 s1 == p.parsedLocation.coords # <<>>
                 learned == IF p.merchantName # None
                            THEN GetLearnedMerchantLocation(merchantLocations, p.userId,
                                                            p.merchantName)
                            ELSE NoDoc
                 background == MatchBackgroundLocation(p.nearby)
                 s4 == MatchEmailLocationPattern(emailLocationPatterns, p.userId,
                                                 p.emailSender, p.emailContent,
                                                 p.merchantName).found
                 s5 == p.parsedLocation.hint # None
             IN /\ s1 => /\ r.source = "parsed_gps_coordinates"
                         /\ r.confidence = ConfidenceVeryHigh
                         /\ r.loc = <<p.parsedLocation.coords[2], p.parsedLocation.coords[1], 1>>
                /\ r.source = "parsed_gps_coordinates" => s1
                /\ r.source = "learned_merchant_location"
                      <=> (~s1 /\ learned.found)
                /\ r.source = "learned_merchant_location"
                      => r.loc = learned.loc /\ r.confidence = learned.confidence
                /\ r.source = "background_location_history"
                      <=> (~s1 /\ ~learned.found /\ background.found)
                /\ r.source = "background_location_history" => r.loc = background.loc
                /\ r.source = "email_pattern"
                      <=> (~s1 /\ ~learned.found /\ ~background.found /\ s4)
                /\ r.source = "text_hint"
                      <=> (~s1 /\ ~learned.found /\ ~background.found /\ ~s4 /\ s5)
                /\ r = NoMatch
                      <=> (~s1 /\ ~learned.found /\ ~background.found /\ ~s4 /\ ~s5)

(* parsed GPS wins over a usable learned location and a usable background match *)
C15_Witness ==
    /\ ret.kind = "match"
    /\ ret.result.source = "parsed_gps_coordinates"
    /\ ret.result.confidence = 90
    /\ ret.params.merchantName # None
    /\ GetLearnedMerchantLocation(merchantLocations, ret.params.userId,
                                  ret.params.merchantName).found
    /\ MatchBackgroundLocation(ret.params.nearby).found

(***************************************************************************)
(* C16: a learned MerchantLocation locates a transaction only if its       *)
(* record has visits >= 2 and confidence >= 0.5: in every store reachable  *)
(* through learning, a record below either bound is returned neither by    *)
(* the matcher's learned-merchant lookup nor by the webhook's own lookup,  *)
(* and a learned-merchant result carries a confidence of at least 0.5.     *)
(***************************************************************************)
C16_LearnedLocationNeedsVisitsAndConfidence ==
    /\ \A u \in Users, m \in {"DOMINOS", "Dominos"} :
          LET k == <<u, Lower(m)>>
          IN (k \in DOMAIN merchantLocations
                /\ (merchantLocations[k].visits < 2 \/ merchantLocations[k].confidence < 50))
             => /\ ~GetLearnedMerchantLocation(merchantLocations, u, m).found
                /\ ~WebhookLearnedLocation(merchantLocations, u, m).found
    /\ (ret.kind = "match" /\ ret.result.source = "learned_merchant_location")
          => ret.result.confidence >= 50

(* one user's record is used while the other's, visited twice or more but *)
(* below 0.5, is passed over                                              *)
C16_Witness ==
    /\ ret.kind = "match"
    /\ ret.result.source = "learned_merchant_location"
    /\ \E k \in DOMAIN merchantLocations :
          /\ merchantLocations[k].visits >= 2
          /\ merchantLocations[k].confidence < 50
          /\ ~GetLearnedMerchantLocation(merchantLocations, k[1], "DOMINOS").found

(***************************************************************************)
(* C17: when parsed GPS, learned merchant location and background          *)
(* correlation all fail and a learned EmailLocationPattern found for the   *)
(* sender or merchant matches the raw email text, the matcher increments   *)
(* that pattern's success counter and returns the pattern's stored         *)
(* location.                                                               *)
(***************************************************************************)
C17_MatchedPatternCountsAndLocates ==
    [][(ret'.kind = "match" /\ MatchTransactionLocationCall(ret'.params)) =>
          LET p == ret'.params
              learned == IF p.merchantName # None
                         THEN GetLearnedMerchantLocation(merchantLocations, p.userId,
                                                         p.merchantName)
                         ELSE NoDoc
              matching == MatchingPatterns(emailLocationPatterns, p.userId, p.emailSender,
                                           p.emailContent, p.merchantName)
          IN (/\ p.parsedLocation.coords = <<>>
              /\ ~learned.found
              /\ ~MatchBackgroundLocation(p.nearby).found
              /\ matching # <<>>)
             => LET i == matching[1]
                IN /\ ret'.result.source = "email_pattern"
                   /\ ret'.result.loc
                         = <<emailLocationPatterns[i].lat, emailLocationPatterns[i].lng, 1>>
                   /\ emailLocationPatterns'[i].successfulExtractions
                         = emailLocationPatterns[i].successfulExtractions + 1]_vars

(***************************************************************************)
(* C18: over the visits learned for one (user, merchant) the               *)
(* MerchantLocation confidence never decreases from one visit to the next, *)
(* and it is 1.0 from the 10th visit on.                                   *)
(***************************************************************************)
C18_ConfidenceMonotoneAndSaturating ==
    [][\A k \in DOMAIN merchantLocations' :
          /\ (k \in DOMAIN merchantLocations
                /\ merchantLocations'[k].visits = merchantLocations[k].visits + 1)
             => merchantLocations'[k].confidence >= merchantLocations[k].confidence
          /\ merchantLocations'[k].visits >= 10 => merchantLocations'[k].confidence = 100]_vars

C18_Witness ==
    \E k \in DOMAIN merchantLocations :
       merchantLocations[k].visits = 12 /\ merchantLocations[k].confidence = 100

(***************************************************************************)
(* C19: every stored MerchantLocation, from its creation on the first      *)
(* visit through every later update, has confidence = min(visits/10, 1.0). *)
(***************************************************************************)
C19_ConfidenceIsVisitsOverTen ==
    \A k \in DOMAIN merchantLocations :
       merchantLocations[k].confidence * 10
          = IF merchantLocations[k].visits < 10 THEN merchantLocations[k].visits * 100
            ELSE 1000

(***************************************************************************)
(* C20: after any sequence of learned visits a MerchantLocation keeps at   *)
(* most the 20 most recent samples, the oldest dropped first; its stored   *)
(* lat/lng is the average of exactly the retained samples; and its visit   *)
(* count is the number of visits learned, not the number retained.         *)
(***************************************************************************)
C20_LastTwentySamplesAveraged ==
    [][\A k \in DOMAIN merchantLocations' :
          LET new == merchantLocations'[k]
              existed == k \in DOMAIN merchantLocations
              oldHist == IF existed THEN merchantLocations[k].visitHistory ELSE <<>>
              oldVisits == IF existed THEN merchantLocations[k].visits ELSE 0
              n == Len(new.visitHistory)
              shift == Len(oldHist) + 1 - n
          IN (~existed \/ new # merchantLocations[k])
             => /\ new.visits = oldVisits + 1
                /\ n = (IF Len(oldHist) < 20 THEN Len(oldHist) + 1 ELSE 20)
                /\ new.visitHistory[n] \in VisitCoords
                /\ \A j \in 1..(n - 1) : new.visitHistory[j] = oldHist[j + shift]
                /\ new.samples = n
                /\ new.latSum = SumLat(new.visitHistory)
                /\ new.lngSum = SumLng(new.visitHistory)]_vars

(* 22 visits learned, 20 samples kept, the sample at the second place among *)
(* the two dropped                                                           *)
C20_Witness ==
    \E k \in DOMAIN merchantLocations :
       /\ merchantLocations[k].visits = 22
       /\ Len(merchantLocations[k].visitHistory) = 20
       /\ merchantLocations[k].latSum = 20 * 13
       /\ merchantLocations[k].lngSum = 20 * 78

(***************************************************************************)
(* Concurrent learning for one (user, merchant).  In this specification    *)
(* the MerchantLocation and MerchantPattern collections are kept as lists  *)
(* of documents in insertion order, so that two documents of one key can   *)
(* be told apart from one; the unique index { user: 1, merchantKey: 1 } of *)
(* both schemas is the operator UniqueIndexAllows.  Each request reads     *)
(* with findOne in one step and writes in a later one; save() writes the   *)
(* request's in-memory document.                                           *)
(***************************************************************************)
MaxRaceVisits == 2
DuplicateKey == 11000

KeyDocs(coll, u, key) ==
    { i \in DOMAIN coll : coll[i].user = u /\ coll[i].merchantKey = key }

(* a collection without the unique index accepts every insert *)
NoUniqueIndex(coll, u, key) == TRUE

(* schema.index({ user: 1, merchantKey: 1 }, { unique: true }) *)
UniqueIndexAllows(coll, u, key) == KeyDocs(coll, u, key) = {}

(* findOne({ user, merchantKey }): the document as a list of zero or one *)
FindOneByKey(coll, u, key) ==
    LET hit == KeyDocs(coll, u, key)
    IN IF hit = {} THEN <<>>
       ELSE <<coll[CHOOSE i \in hit : \A j \in hit : i <= j].doc>>

(* save() of a document read earlier: it replaces the stored one *)
SaveByKey(coll, u, key, doc) ==
    LET hit == KeyDocs(coll, u, key)
    IN IF hit = {} THEN coll
       ELSE [coll EXCEPT ![CHOOSE i \in hit : \A j \in hit : i <= j].doc = doc]

RaceUnchanged ==
    UNCHANGED <<pend, nextPid, txns, now, emailParsingPatterns, emailLocationPatterns,
                learningPatterns, deliveries, inbox, processedEmailIds, gmail,
                processedMessageIds, today, reply, ret>>

(* learnMerchantLocation: MerchantLocation.findOne({ user, merchantKey }) *)
LocationFind(r, u, merchantName, lat, lng) ==
    LET key == Lower(merchantName)
        snap == FindOneByKey(merchantLocations, u, key)
    IN /\ reqs[r].pc = "idle"
       /\ snap # <<>> => snap[1].visits < MaxRaceVisits
       /\ reqs' = [reqs EXCEPT ![r] =
             [IdleReq EXCEPT !.kind = "learnLocation", !.pc = "found", !.user = u,
                             !.doc = [key |-> key, merchantName |-> merchantName,
                                      lat |-> lat, lng |-> lng, snap |-> snap]]]
       /\ UNCHANGED <<merchantLocations, merchantPatterns>>
       /\ RaceUnchanged

(* learnMerchantLocation: learned.save() or MerchantLocation.create(); a   *)
(* duplicate-key error of create is caught and logged                      *)
LocationWrite(r) ==
    /\ reqs[r].kind = "learnLocation"
    /\ reqs[r].pc = "found"
    /\ LET a == reqs[r].doc
           u == reqs[r].user
           k == <<u, a.key>>
           mem == IF a.snap = <<>> THEN <<>> ELSE (k :> a.snap[1])
           doc == LearnMerchantLocation(mem, u, a.merchantName, a.lat, a.lng)[k]
       IN IF a.snap # <<>>
          THEN /\ merchantLocations' = SaveByKey(merchantLocations, u, a.key, doc)
               /\ reqs' = [reqs EXCEPT ![r].pc = "done", ![r].code = 200]
          ELSE IF UniqueIndexAllows(merchantLocations, u, a.key)
          THEN /\ merchantLocations' =
                     Append(merchantLocations, [user |-> u, merchantKey |-> a.key, doc |-> doc])
               /\ reqs' = [reqs EXCEPT ![r].pc = "done", ![r].code = 201]
          ELSE /\ UNCHANGED merchantLocations
               /\ reqs' = [reqs EXCEPT ![r].pc = "done", ![r].code = DuplicateKey]
    /\ UNCHANGED merchantPatterns
    /\ RaceUnchanged

(* the approve route's MerchantPattern.findOne({ user, merchantKey }) *)
PatternFind(r, u, c, cd) ==
    LET d == NewPending(u, c[1], c[2])
        merchant == ApproveMerchant(d, cd)
        key == Lower(merchant)
        snap == FindOneByKey(merchantPatterns, u, key)
    IN /\ reqs[r].pc = "idle"
       /\ merchant # None
       /\ snap # <<>> => snap[1].totalTransactions < MaxRaceVisits
       /\ reqs' = [reqs EXCEPT ![r] =
             [IdleReq EXCEPT !.kind = "learnPattern", !.pc = "found", !.user = u, !.cd = cd,
                             !.doc = [key |-> key, d |-> d, snap |-> snap]]]
       /\ UNCHANGED <<merchantLocations, merchantPatterns>>
       /\ RaceUnchanged

(* the approve route's MerchantPattern.create() or the changes to the found *)
(* pattern, then pattern.save(); any error ends in the route's catch        *)
PatternWrite(r) ==
    /\ reqs[r].kind = "learnPattern"
    /\ reqs[r].pc = "found"
    /\ LET a == reqs[r].doc
           u == reqs[r].user
           k == <<u, a.key>>
           mem == IF a.snap = <<>> THEN <<>> ELSE (k :> a.snap[1])
           doc == RouteLearnMerchantPattern(mem, a.d, reqs[r].cd, {})[k]
       IN IF a.snap # <<>>
          THEN /\ merchantPatterns' = SaveByKey(merchantPatterns, u, a.key, doc)
               /\ reqs' = [reqs EXCEPT ![r].pc = "done", ![r].code = 200]
          ELSE IF UniqueIndexAllows(merchantPatterns, u, a.key)
          THEN /\ merchantPatterns' =
                     Append(merchantPatterns, [user |-> u, merchantKey |-> a.key, doc |-> doc])
               /\ reqs' = [reqs EXCEPT ![r].pc = "done", ![r].code = 201]
          ELSE /\ UNCHANGED merchantPatterns
               /\ reqs' = [reqs EXCEPT ![r].pc = "done", ![r].code = DuplicateKey]
    /\ UNCHANGED merchantLocations
    /\ RaceUnchanged

(* the request is answered; its slot serves the next request *)
LearnDone(r) ==
    /\ reqs[r].kind \in {"learnLocation", "learnPattern"}
    /\ reqs[r].pc = "done"
    /\ reqs' = [reqs EXCEPT ![r] = IdleReq]
    /\ UNCHANGED <<merchantLocations, merchantPatterns>>
    /\ RaceUnchanged

(* the two requests that race *)
Racers == {1, 2}

NextLearnRace ==
    \E r \in Racers :
       \/ \E merchantName \in {"DOMINOS", "Dominos"} : LocationFind(r, "u1", merchantName, 13, 78)
       \/ LocationWrite(r)
       \/ \E c \in IngestChoices, cd \in CorrectedChoices : PatternFind(r, "u1", c, cd)
       \/ PatternWrite(r)
       \/ LearnDone(r)

SpecLearnRace == Init /\ [][NextLearnRace]_vars

(***************************************************************************)
(* C21: under any interleaving of concurrent learning updates for one user *)
(* and merchant there is at most one MerchantLocation and at most one      *)
(* MerchantPattern document per (user, normalized merchant key).           *)
(***************************************************************************)
C21_OneRecordPerUserAndKey ==
    /\ \A i, j \in DOMAIN merchantLocations :
          (merchantLocations[i].user = merchantLocations[j].user
             /\ merchantLocations[i].merchantKey = merchantLocations[j].merchantKey) => i = j
    /\ \A i, j \in DOMAIN merchantPatterns :
          (merchantPatterns[i].user = merchantPatterns[j].user
             /\ merchantPatterns[i].merchantKey = merchantPatterns[j].merchantKey) => i = j

(* both requests found nothing; the later create was refused by the index, *)
(* for a location and for a pattern                                        *)
C21_Witness ==
    /\ Len(merchantLocations) = 1
    /\ Len(merchantPatterns) = 1
    /\ \E r \in ReqIds : reqs[r].pc = "done" /\ reqs[r].code = 11000
                         /\ reqs[r].kind = "learnPattern"
    /\ merchantLocations[1].doc.visits = 1

(***************************************************************************)
(* Long review histories of one user and merchant: candidates arrive, are  *)
(* approved through POST /:id/approve (with or without corrections) or     *)
(* through bulk-approve, and processed records are deleted.  The first     *)
(* MaxVaried approvals are of any candidate with any correction, the later *)
(* ones the same correction of the forwarded-email candidate.  The user    *)
(* reviews one record at a time: a candidate arrives when the previous     *)
(* record has been processed and cleared.                                  *)
(***************************************************************************)
MaxApprovals == 22
MaxVaried == 2

ReviewIds == 1..MaxApprovals

MainCorrection ==
    [present |-> TRUE, amount |-> 250, type |-> "expense", category |-> "Dining",
     merchant |-> "Dominos", paymentMethod |-> "card", date |-> NoNum,
     hasLocation |-> FALSE, coords |-> <<>>]

ReviewCorrections ==
    { NoCorrection, MainCorrection,
      [MainCorrection EXCEPT !.category = "Snacks", !.paymentMethod = "other"],
      [MainCorrection EXCEPT !.category = "Other", !.paymentMethod = "upi"] }

(* the approval every review after the first MaxVaried ones makes *)
IsMainApproval(d, cd) == d.source.type = "email" /\ cd = MainCorrection

ReviewCreate(u, parsed, src) ==
    /\ ret = NoRet
    /\ nextPid <= MaxApprovals
    /\ DOMAIN pend = {}
    /\ pend' = pend @@ (nextPid :> NewPending(u, parsed, src))
    /\ nextPid' = nextPid + 1
    /\ src.type = "email" \/ nextPid <= MaxVaried
    /\ UNCHANGED <<txns, now>>
    /\ UNCHANGED <<learnVars, auxVars>>

ReviewApprove(u, id, cd) ==
    /\ ret = NoRet
    /\ FindOnePending(pend, u, id)
    /\ IsMainApproval(pend[id], cd) \/ Len(txns) < MaxVaried
    /\ ApproveRoute(u, id, cd, {})

ReviewBulkApprove(u, id) ==
    /\ ret = NoRet
    /\ FindOnePending(pend, u, id)
    /\ Len(txns) < MaxVaried
    /\ BulkApproveRoute(u, <<id>>)

ReviewDelete(u, id) ==
    /\ ret = NoRet
    /\ id \in DOMAIN pend
    /\ pend[id].status # "pending"
    /\ DeleteRoute(u, id)

(* pattern.categoryPattern?.confidence >= 0.6, on a confidence <<count, length>> *)
SuggestionThresholdStrict(conf) == conf[1] * 10 > 6 * conf[2]

SuggestionThreshold(conf) == conf[1] * 10 >= 6 * conf[2]

(* MerchantPattern.suggestCorrections(userId, parsedData) *)
SuggestCorrections(store, u, parsed) ==
    LET k == <<u, Lower(parsed.merchant)>>
    IN IF parsed.merchant = None \/ k \notin DOMAIN store
       THEN [hasSuggestions |-> FALSE]
       ELSE [hasSuggestions |-> TRUE,
             merchant |-> store[k].merchantName,
             category |-> IF SuggestionThreshold(store[k].category.confidence)
                          THEN store[k].category.preferred ELSE None,
             paymentMethod |-> IF SuggestionThreshold(store[k].payment.confidence)
                               THEN store[k].payment.preferred ELSE None,
             confidence |-> [category |-> store[k].category.confidence,
                             paymentMethod |-> store[k].payment.confidence]]

(* GET /suggestions/:transactionId *)
SuggestRoute(u, id) ==
    /\ ret = NoRet
    /\ ret' = IF FindOnePending(pend, u, id)
              THEN [kind |-> "suggest", code |-> 200, id |-> id, user |-> u,
                    body |-> SuggestCorrections(merchantPatterns, u, pend[id].parsed)]
              ELSE [kind |-> "suggest", code |-> 404]
    /\ UNCHANGED <<pend, nextPid, txns, now, reqs, deliveries, inbox, processedEmailIds,
                   gmail, processedMessageIds, today, reply>>
    /\ UNCHANGED learnVars

(* the client has read the response of GET /suggestions/:transactionId *)
SuggestRead ==
    /\ ret.kind = "suggest"
    /\ ret' = NoRet
    /\ UNCHANGED <<pend, nextPid, txns, now, reqs, deliveries, inbox, processedEmailIds,
                   gmail, processedMessageIds, today, reply>>
    /\ UNCHANGED learnVars

NextReview ==
    \/ \E c \in IngestChoices : ReviewCreate("u1", c[1], c[2])
    \/ \E id \in ReviewIds, cd \in ReviewCorrections : ReviewApprove("u1", id, cd)
    \/ \E id \in ReviewIds : ReviewBulkApprove("u1", id)
    \/ \E id \in ReviewIds : ReviewDelete("u1", id)
    \/ \E id \in ReviewIds : SuggestRoute("u1", id)
    \/ SuggestRead

SpecReview == Init /\ [][NextReview]_vars

(***************************************************************************)
(* Properties of the merchant pattern learned from approvals (SpecReview)  *)
(***************************************************************************)
ReviewKey == <<"u1", "dominos">>

(* the record that this step approves, if any *)
ApprovedNow(id) ==
    /\ id \in DOMAIN pend
    /\ pend[id].status = "pending"
    /\ pend'[id].status = "approved"

OldPattern(k) ==
    IF k \in DOMAIN merchantPatterns THEN merchantPatterns[k]
    ELSE [merchantName |-> None, variations |-> <<>>, totalTransactions |-> 0,
          totalCorrections |-> 0, category |-> EmptyPreference, payment |-> EmptyPreference]

(* newH is oldH with entry e appended and only the last HistoryCap entries kept *)
AppendedAndTrimmed(oldH, newH, e) ==
    LET n == IF Len(oldH) + 1 > HistoryCap THEN HistoryCap ELSE Len(oldH) + 1
        shift == Len(oldH) + 1 - n
    IN /\ Len(newH) = n
       /\ newH[n] = e
       /\ \A j \in 1..(n - 1) : newH[j] = oldH[j + shift]

(* C22: the category history of a merchant pattern changes only in an      *)
(* approval whose corrected category is given and differs from the parsed  *)
(* one; it then gains that correction as its last entry, keeps the earlier *)
(* entries in arrival order, and never holds more than 20 entries (the     *)
(* oldest are dropped).                                                    *)
C22_CategoryHistoryOnlyOnChangeAndCapped ==
    [][\A k \in DOMAIN merchantPatterns' :
         LET oldH == OldPattern(k).category.history
             newH == merchantPatterns'[k].category.history
         IN /\ Len(newH) <= 20
            /\ \/ newH = oldH
               \/ \E id \in DOMAIN pend :
                    /\ ApprovedNow(id)
                    /\ LET d == pend[id]
                           cd == pend'[id].feedback.corrected
                       IN /\ cd.present
                          /\ cd.category # None
                          /\ cd.category # d.parsed.category
                          /\ k = <<d.user, Lower(ApproveMerchant(d, cd))>>
                          /\ AppendedAndTrimmed(oldH, newH, <<d.parsed.category, cd.category>>)]_vars

(* a full history from which the first correction (Snacks) has been dropped *)
C22_Witness ==
    /\ ReviewKey \in DOMAIN merchantPatterns
    /\ Len(txns) >= 21
    /\ txns[1].category = "Snacks"
    /\ LET h == merchantPatterns[ReviewKey].category.history
       IN /\ Len(h) = 20
          /\ \A i \in DOMAIN h : h[i][2] = "Dining"

(* C23: for category and for payment method alike, the preferred value is  *)
(* a most frequent corrected value of the retained history and the         *)
(* confidence is its count over the history length, in (0, 1]; a           *)
(* correction of only one of the two leaves the other's record untouched.  *)
PreferenceIsMostFrequent(pref) ==
    pref.history # <<>> =>
        LET h == pref.history
            c == CountOf(h, pref.preferred)
        IN /\ \A i \in DOMAIN h : c >= CountOf(h, h[i][2])
           /\ pref.confidence = <<c, Len(h)>>
           /\ c > 0
           /\ c <= Len(h)

C23_PreferredIsMostFrequentWithItsShare ==
    [][/\ \A k \in DOMAIN merchantPatterns' :
            /\ PreferenceIsMostFrequent(merchantPatterns'[k].category)
            /\ PreferenceIsMostFrequent(merchantPatterns'[k].payment)
       /\ \A id \in DOMAIN pend :
            ApprovedNow(id) =>
              LET d == pend[id]
                  cd == pend'[id].feedback.corrected
                  k == <<d.user, Lower(ApproveMerchant(d, cd))>>
              IN k \in DOMAIN merchantPatterns' =>
                  /\ (~cd.present \/ cd.category = None \/ cd.category = d.parsed.category)
                        => merchantPatterns'[k].category = OldPattern(k).category
                  /\ (~cd.present \/ cd.paymentMethod = None
                        \/ cd.paymentMethod = d.parsed.paymentMethod)
                        => merchantPatterns'[k].payment = OldPattern(k).payment]_vars

(* a minority value entered first: preferred is the later, more frequent   *)
(* one, and the two records have diverged                                  *)
C23_Witness ==
    /\ ReviewKey \in DOMAIN merchantPatterns
    /\ LET p == merchantPatterns[ReviewKey]
       IN /\ Len(p.category.history) = 3
          /\ p.category.history[1][2] = "Snacks"
          /\ p.category.preferred = "Dining"
          /\ p.category.confidence = <<2, 3>>
          /\ Len(p.payment.history) = 2

(* C24: every approval of a record with a merchant, through the single     *)
(* approve route or through bulk-approve, leaves a merchant pattern for    *)
(* (user, lowercased merchant) whose transaction count is one more than    *)
(* before (1 when it did not exist).                                       *)
C24_EveryApprovalUpsertsPattern ==
    [][\A id \in DOMAIN pend :
         ApprovedNow(id) =>
           LET d == pend[id]
               cd == pend'[id].feedback.corrected
               k == <<d.user, Lower(ApproveMerchant(d, cd))>>
           IN ApproveMerchant(d, cd) # None =>
                /\ k \in DOMAIN merchantPatterns'
                /\ merchantPatterns'[k].totalTransactions = OldPattern(k).totalTransactions + 1]_vars

VariationOf(p, name) == { i \in DOMAIN p.variations : p.variations[i].parsedName = name }

(* C25: an approval that upserts the merchant pattern records the merchant *)
(* name as parsed as a variation: its occurrence count is one more than    *)
(* before (1 when new), and no name is listed twice.                       *)
C25_ParsedNameCountedPerApproval ==
    [][\A id \in DOMAIN pend :
         ApprovedNow(id) =>
           LET d == pend[id]
               cd == pend'[id].feedback.corrected
               k == <<d.user, Lower(ApproveMerchant(d, cd))>>
               name == d.parsed.merchant
           IN (/\ name # None
               /\ k \in DOMAIN merchantPatterns'
               /\ merchantPatterns'[k].totalTransactions = OldPattern(k).totalTransactions + 1)
              => LET old == OldPattern(k)
                     new == merchantPatterns'[k]
                 IN /\ Cardinality(VariationOf(new, name)) = 1
                    /\ \A i \in VariationOf(new, name) :
                         new.variations[i].occurrences =
                            IF VariationOf(old, name) = {} THEN 1
                            ELSE 1 + old.variations[CHOOSE j \in VariationOf(old, name) : TRUE].occurrences]_vars

(* C26: when the pending candidate's merchant has a learned pattern, the   *)
(* suggestions response carries the pattern's canonical merchant name, and *)
(* carries a category (payment method) suggestion, the preferred value,    *)
(* exactly when that preference's confidence is at least 0.6.              *)
C26_SuggestionsGatedAtSixty ==
    (ret.kind = "suggest" /\ ret.code = 200) =>
        LET parsed == pend[ret.id].parsed
            k == <<ret.user, Lower(parsed.merchant)>>
        IN (parsed.merchant # None /\ k \in DOMAIN merchantPatterns) =>
             LET p == merchantPatterns[k]
                 b == ret.body
             IN /\ b.hasSuggestions
                /\ b.merchant = p.merchantName
                /\ (b.category # None) <=> (p.category.confidence[1] * 10 >= 6 * p.category.confidence[2])
                /\ b.category # None => b.category = p.category.preferred
                /\ (b.paymentMethod # None) <=>
                       (p.payment.confidence[1] * 10 >= 6 * p.payment.confidence[2])
                /\ b.paymentMethod # None => b.paymentMethod = p.payment.preferred

(* a category at confidence 1/2 is withheld while the payment method at    *)
(* 1/1 and the canonical name are offered                                  *)
C26_Witness ==
    /\ ret.kind = "suggest"
    /\ ret.code = 200
    /\ ret.body.hasSuggestions
    /\ ret.body.merchant = "Dominos"
    /\ ret.body.category = None
    /\ ret.body.confidence.category = <<1, 2>>
    /\ ret.body.paymentMethod = "card"

(***************************************************************************)
(* Merchant name similarity (utils/stringSimilarity.js).  Names are        *)
(* sequences of one-character strings; a similarity is the fraction        *)
(* <<numerator, denominator>> and a threshold is in percent.               *)
(***************************************************************************)
MaxThresholds == 2

UpperChars == <<"A", "B", "C", "D", "E", "F", "G", "H", "I", "J", "K", "L", "M",
               "N", "O", "P", "Q", "R", "S", "T", "U", "V", "W", "X", "Y", "Z">>
LowerChars == <<"a", "b", "c", "d", "e", "f", "g", "h", "i", "j", "k", "l", "m",
               "n", "o", "p", "q", "r", "s", "t", "u", "v", "w", "x", "y", "z">>
Digits == {"0", "1", "2", "3", "4", "5", "6", "7", "8", "9"}
Space == " "

(* String.prototype.toLowerCase, one character at a time *)
LowerChar(c) ==
    IF \E i \in DOMAIN UpperChars : UpperChars[i] = c
    THEN LowerChars[CHOOSE i \in DOMAIN UpperChars : UpperChars[i] = c]
    ELSE c

(* /[^a-z0-9\s]/ *)
IsKept(c) == c = Space \/ c \in Digits \/ \E i \in DOMAIN LowerChars : LowerChars[i] = c

(* /\b(the|and|pvt|ltd|limited|inc|corp|llc)\b/ *)
CommonWords ==
    { <<"t", "h", "e">>, <<"a", "n", "d">>, <<"p", "v", "t">>, <<"l", "t", "d">>,
      <<"l", "i", "m", "i", "t", "e", "d">>, <<"i", "n", "c">>, <<"c", "o", "r", "p">>,
      <<"l", "l", "c">> }

RECURSIVE WordsOf(_, _)
(* the maximal runs of non-space characters of s, cur being the run so far *)
WordsOf(s, cur) ==
    IF s = <<>> THEN (IF cur = <<>> THEN <<>> ELSE <<cur>>)
    ELSE IF Head(s) = Space
         THEN (IF cur = <<>> THEN <<>> ELSE <<cur>>) \o WordsOf(Tail(s), <<>>)
         ELSE WordsOf(Tail(s), Append(cur, Head(s)))

RECURSIVE JoinWords(_)
JoinWords(ws) ==
    IF ws = <<>> THEN <<>>
    ELSE IF Len(ws) = 1 THEN ws[1]
    ELSE ws[1] \o <<Space>> \o JoinWords(Tail(ws))

(* normalizeMerchantName: lowercase, drop the special characters, drop the *)
(* common words, collapse the runs of spaces and trim                      *)
NormalizeMerchantName(name) ==
    LET lowered == [i \in DOMAIN name |-> LowerChar(name[i])]
        kept == SelectSeq(lowered, IsKept)
        words == SelectSeq(WordsOf(kept, <<>>), LAMBDA w : w \notin CommonWords)
    IN JoinWords(words)

Min3(a, b, c) == IF a <= b /\ a <= c THEN a ELSE IF b <= c THEN b ELSE c

RECURSIVE FillRow(_, _, _, _)
(* row i of the table dp of levenshteinDistance, filled from left to right: *)
(* prev is row i - 1, c is s1[i - 1], acc holds dp[i][0 .. Len(acc) - 1]     *)
FillRow(prev, c, s2, acc) ==
    IF Len(acc) = Len(s2) + 1 THEN acc
    ELSE LET j == Len(acc)
         IN FillRow(prev, c, s2,
                Append(acc, IF c = s2[j] THEN prev[j]
                            ELSE Min3(prev[j + 1] + 1, acc[j] + 1, prev[j] + 1)))

RECURSIVE FillTable(_, _, _, _)
FillTable(s1, s2, i, prev) ==
    IF i > Len(s1) THEN prev
    ELSE FillTable(s1, s2, i + 1, FillRow(prev, s1[i], s2, <<i>>))

(* dp[len1][len2], row 0 of the table being 0 .. len2 *)
LevenshteinDistance(s1, s2) ==
    FillTable(s1, s2, 1, [j \in 1..(Len(s2) + 1) |-> j - 1])[Len(s2) + 1]

SimilarityRatio(s1, s2) ==
    LET longer == IF Len(s1) > Len(s2) THEN s1 ELSE s2
        shorter == IF Len(s1) > Len(s2) THEN s2 ELSE s1
    IN IF Len(longer) = 0 THEN <<1, 1>>
       ELSE <<Len(longer) - LevenshteinDistance(longer, shorter), Len(longer)>>

(* String.prototype.includes *)
Includes(s, t) ==
    \E k \in 0..(Len(s) - Len(t)) : \A i \in 1..Len(t) : s[k + i] = t[i]

AtLeast(sim, threshold) == sim[1] * 100 >= threshold * sim[2]

ContainsSimilarity == <<85, 100>>

FuzzyMatch(name1, name2, threshold) ==
    LET normalized1 == NormalizeMerchantName(name1)
        normalized2 == NormalizeMerchantName(name2)
    IN IF normalized1 = normalized2 THEN [match |-> TRUE, similarity |-> <<1, 1>>]
       ELSE IF Includes(normalized1, normalized2) \/ Includes(normalized2, normalized1)
       THEN [match |-> AtLeast(ContainsSimilarity, threshold), similarity |-> ContainsSimilarity]
       ELSE LET similarity == SimilarityRatio(normalized1, normalized2)
            IN [match |-> AtLeast(similarity, threshold), similarity |-> similarity]

Sbux == <<"S", "B", "U", "X">>
Starbucks == <<"S", "t", "a", "r", "b", "u", "c", "k", "s">>
MerchantNames ==
    { Sbux, Starbucks,
      <<"S", "T", "A", "R", "B", "U", "C", "K", "S">>,
      <<"S", "t", "a", "r">>,
      <<"S", "t", "a", "r", "b", "u", "c", "k">>,
      <<"T", "h", "e", " ", "S", "t", "a", "r", "b", "u", "c", "k", "s", " ", "L", "t", "d", ".">>,
      <<"D", "o", "m", "i", "n", "o", "s">>,
      <<"D", "o", "m", "i", "n", "o", "'", "s", " ", " ", "P", "i", "z", "z", "a">>,
      <<>> }
(* the default threshold 0.75 first *)
Thresholds == <<75, 90, 50>>

InitWith(r) ==
    /\ pend = <<>>
    /\ nextPid = 1
    /\ txns = <<>>
    /\ now = 0
    /\ emailParsingPatterns = <<>>
    /\ merchantPatterns = <<>>
    /\ merchantLocations = <<>>
    /\ emailLocationPatterns = <<>>
    /\ learningPatterns = <<>>
    /\ reqs = [r0 \in ReqIds |-> IdleReq]
    /\ deliveries = [k \in DeliveryIds |-> IdleDelivery]
    /\ inbox = <<>>
    /\ processedEmailIds = <<>>
    /\ gmail = [u \in Users |-> [m \in GmailIds |-> "absent"]]
    /\ processedMessageIds = [u \in Users |-> {}]
    /\ today = 0
    /\ reply = NoReply
    /\ ret = r

OnlyRet ==
    /\ UNCHANGED <<pend, nextPid, txns, now, reqs, deliveries, inbox, processedEmailIds,
                   gmail, processedMessageIds, today, reply>>
    /\ UNCHANGED learnVars

InitFuzzy ==
    \E n1 \in MerchantNames, n2 \in MerchantNames, t \in 1..MaxThresholds :
        InitWith([kind |-> "names", name1 |-> n1, name2 |-> n2, threshold |-> Thresholds[t]])

FuzzyMatchCall ==
    /\ ret.kind = "names"
    /\ ret' = [kind |-> "fuzzy", name1 |-> ret.name1, name2 |-> ret.name2,
               threshold |-> ret.threshold,
               result |-> FuzzyMatch(ret.name1, ret.name2, ret.threshold)]
    /\ OnlyRet

NextFuzzy == FuzzyMatchCall

SpecFuzzy == InitFuzzy /\ [][NextFuzzy]_vars

(* C27: fuzzyMatch("SBUX", "Starbucks") and fuzzyMatch("Starbucks",        *)
(* "SBUX"), at the default threshold 0.75, both report match = true with a *)
(* similarity of at least 0.75.                                            *)
C27_SbuxMatchesStarbucks ==
    (/\ ret.kind = "fuzzy"
     /\ ret.threshold = 75
     /\ {ret.name1, ret.name2} = {Sbux, Starbucks})
    => /\ ret.result.match
       /\ AtLeast(ret.result.similarity, 75)

(***************************************************************************)
(* Parsing of message texts (utils/transactionParser.js, bank.patterns.js, *)
(* category.classifier.js) and what each inbound source does with the      *)
(* result.  A message is the sequence of its words; amounts are in rupees  *)
(* and confidence scores in tenths.                                        *)
(***************************************************************************)
MaxSenders == 3

HighAmount == 100000
BaseScore == 5
FailedScore == 1
ForwardedScore == 7

AmountParts ==
    { <<"Rs", "250">>, <<"250", "Rs">>, <<"250">>, <<"INR", "150000">>,
      <<"Rs", "0", "INR", "99">>, <<>> }
VerbParts ==
    { <<>>, <<"debited">>, <<"CREDITED">>, <<"credited", "debited">>, <<"refund">>,
      <<"sent">>, <<"Paid">> }
TailParts == { <<>>, <<"at", "DOMINOS">>, <<"at", "Starbucks">> }
Senders == <<"alerts@hdfcbank.com", "noreply@google.com", "friend@gmail.com", "alerts@paytm.com">>
(* every combination but the empty text *)
Messages == { a \o v \o t : a \in AmountParts, v \in VerbParts, t \in TailParts } \ {<<>>}

LowerWord(w) ==
    CASE w = "CREDITED" -> "credited"
      [] w = "Paid" -> "paid"
      [] w = "Rs" -> "rs"
      [] w = "INR" -> "inr"
      [] w = "Starbucks" -> "starbucks"
      [] OTHER -> Lower(w)

(* /re/i.test(message) and lowerText.includes(keyword), word by word *)
HasWord(msg, words) == \E i \in DOMAIN msg : LowerWord(msg[i]) \in words

(* parseFloat(amountStr.replace(/,/g, '')) *)
NumberValue(w) ==
    CASE w = "250" -> 250 [] w = "0" -> 0 [] w = "99" -> 99 [] w = "150000" -> 150000
      [] OTHER -> NoNum
IsNumber(w) == NumberValue(w) # NoNum

AmountVerbs == {"deduction", "debited", "credited", "spent", "paid", "withdrawn"}

(* where the amount expression of parseTransactionMessage matches: a       *)
(* currency mark before or after a number, or a number before a verb       *)
AmountMatches(msg) ==
    { i \in 1..(Len(msg) - 1) :
        \/ LowerWord(msg[i]) \in {"rs", "inr"} /\ IsNumber(msg[i + 1])
        \/ IsNumber(msg[i]) /\ LowerWord(msg[i + 1]) \in {"rs", "inr"}
        \/ IsNumber(msg[i]) /\ LowerWord(msg[i + 1]) \in AmountVerbs }

(* the leftmost match and its captured number *)
MatchedAmount(msg) ==
    LET i == CHOOSE x \in AmountMatches(msg) : \A y \in AmountMatches(msg) : x <= y
    IN IF IsNumber(msg[i]) THEN NumberValue(msg[i]) ELSE NumberValue(msg[i + 1])

(* the fourth merchant pattern: the words after to/at/from/merchant *)
ExtractMerchant(msg) ==
    LET hits == { i \in 1..(Len(msg) - 1) : LowerWord(msg[i]) \in {"to", "at", "from", "merchant"} }
    IN IF hits = {} THEN "Unknown"
       ELSE msg[1 + CHOOSE x \in hits : \A y \in hits : x <= y]

DetectPaymentMethod(msg) ==
    IF HasWord(msg, {"upi"}) THEN "upi"
    ELSE IF HasWord(msg, {"card", "visa", "master", "maestro", "rupay"}) THEN "card"
    ELSE IF HasWord(msg, {"netbanking", "neft", "rtgs", "imps"}) THEN "netbanking"
    ELSE IF HasWord(msg, {"wallet", "paytm", "phonepe", "gpay", "googlepay"}) THEN "wallet"
    ELSE IF HasWord(msg, {"cash", "atm", "withdrawal"}) THEN "cash"
    ELSE "other"

DefaultCategory == "General Expense"

(* classifyCategory: the first rule with a keyword in the text *)
ClassifyCategory(text) ==
    IF HasWord(text, {"uber", "ola", "taxi"}) THEN "Transport"
    ELSE IF HasWord(text, {"starbucks", "cafe", "coffee"}) THEN "Food"
    ELSE IF HasWord(text, {"flipkart", "amazon", "myntra"}) THEN "Shopping"
    ELSE IF HasWord(text, {"zomato", "swiggy", "restaurant"}) THEN "Food"
    ELSE IF HasWord(text, {"rent", "landlord"}) THEN "Housing"
    ELSE IF HasWord(text, {"salary", "payroll", "credited"}) THEN "Income"
    ELSE DefaultCategory

ParseError == [found |-> TRUE, error |-> TRUE]

(* finalAmount = amount, kept as it was parsed *)
IncomeAmountUnsigned(amount) == amount

(* finalAmount = -amount *)
IncomeAmount(amount) == 0 - amount

CreditWords == {"credited", "received", "refund", "cashback"}
DebitWords == {"debited", "spent", "purchased", "paid", "withdrawn", "deducted", "deduction"}

ParseTransactionMessage(msg) ==
    IF AmountMatches(msg) = {} THEN ParseError
    ELSE LET amount == MatchedAmount(msg)
             merchant == ExtractMerchant(msg)
             credit == HasWord(msg, CreditWords)
         IN IF amount <= 0 THEN ParseError
            ELSE [found |-> TRUE, error |-> FALSE,
                  amount |-> IF credit THEN IncomeAmount(amount) ELSE amount,
                  merchant |-> merchant,
                  paymentMethod |-> DetectPaymentMethod(msg),
                  category |-> ClassifyCategory(Append(msg, merchant)),
                  type |-> IF credit THEN "income" ELSE "expense",
                  accountNumber |-> None, balance |-> None,
                  isParsed |-> TRUE]

(* BANK_PATTERNS[domain]: the currency marks of its amount patterns, in order, *)
(* and its credit and debit keywords                                          *)
BankPatterns(from) ==
    CASE from = "alerts@hdfcbank.com" ->
            [found |-> TRUE, marks |-> <<"rs", "inr">>,
             credit |-> {"credited", "received", "refund"}, debit |-> {"debited", "spent", "paid"}]
      [] from = "noreply@google.com" ->
            [found |-> TRUE, marks |-> <<"₹", "rs">>,
             credit |-> {"received"}, debit |-> {"paid", "sent"}]
      [] from = "alerts@paytm.com" ->
            [found |-> TRUE, marks |-> <<"rs", "₹">>,
             credit |-> {"received", "got"}, debit |-> {"sent", "paid", "payment"}]
      [] OTHER -> [found |-> FALSE]

(* fullText.match(pattern): the number after the first occurrence of the mark *)
MarkMatches(msg, mark) ==
    { i \in 1..(Len(msg) - 1) : LowerWord(msg[i]) = mark /\ IsNumber(msg[i + 1]) }

RECURSIVE BankAmount(_, _, _)
(* the loop over amountPatterns: the last matched amount, stopping at the  *)
(* first positive one                                                      *)
BankAmount(msg, marks, amount) ==
    IF marks = <<>> THEN amount
    ELSE LET hits == MarkMatches(msg, Head(marks))
         IN IF hits = {} THEN BankAmount(msg, Tail(marks), amount)
            ELSE LET a == NumberValue(msg[1 + CHOOSE x \in hits : \A y \in hits : x <= y])
                 IN IF a > 0 THEN a ELSE BankAmount(msg, Tail(marks), a)

Abs(a) == IF a < 0 THEN 0 - a ELSE a

NoParse == [found |-> FALSE, error |-> FALSE]

(* parseBankEmail; the amount NoNum stands for null (no message carries the *)
(* amount 1, so an income of one rupee is never confused with it)           *)
ParseBankEmail(from, msg) ==
    LET bank == BankPatterns(from)
    IN IF ~bank.found THEN NoParse
       ELSE LET amount == BankAmount(msg, bank.marks, NoNum)
                truthy == amount # NoNum /\ amount # 0
                credit == HasWord(msg, bank.credit)
                debit == HasWord(msg, bank.debit)
            IN [found |-> TRUE, error |-> FALSE,
                amount |-> IF credit THEN (IF truthy THEN 0 - Abs(amount) ELSE NoNum)
                           ELSE IF debit THEN (IF truthy THEN Abs(amount) ELSE NoNum)
                           ELSE amount,
                merchant |-> "Unknown",
                type |-> IF credit THEN "income" ELSE "expense",
                paymentMethod |-> None, category |-> None,
                accountNumber |-> None, balance |-> None]

(* a parsed amount that JavaScript takes as true *)
HasAmount(parsed) == parsed.amount # NoNum /\ parsed.amount # 0

(* strategies 2 and 3 of processMessage: the bank pattern, else the generic parser *)
ParseStrategies(from, msg) ==
    LET bank == ParseBankEmail(from, msg)
    IN IF bank.found /\ HasAmount(bank)
       THEN [strategy |-> "bank-pattern", parsed |-> bank]
       ELSE [strategy |-> "generic-parser", parsed |-> ParseTransactionMessage(msg)]

TransactionKeywords ==
    {"debited", "credited", "spent", "paid", "received", "transaction", "purchase"}

Bonus(cond) == IF cond THEN 1 ELSE 0

Clamp(score) == IF score < 0 THEN 0 ELSE IF score > 10 THEN 10 ELSE score

(* calculateConfidenceScore, in tenths *)
CalculateConfidenceScore(parsed, msg) ==
    Clamp(BaseScore
          + Bonus(parsed.merchant # None)
          + Bonus(parsed.accountNumber # None)
          + Bonus(parsed.balance # None)
          + Bonus(parsed.paymentMethod # None)
          + Bonus(parsed.category # None /\ parsed.category # "Other")
          - 2 * Bonus(parsed.amount > HighAmount)
          + Bonus(HasWord(msg, TransactionKeywords)))

(* the PendingTransaction documents of this section *)
ParsedPending(u, from, parsed, srcType, strategy, score, review) ==
    [user |-> u,
     parsed |-> [amount |-> parsed.amount, type |-> parsed.type,
                 category |-> parsed.category, merchant |-> parsed.merchant,
                 paymentMethod |-> parsed.paymentMethod],
     source |-> [type |-> srcType, from |-> from, parsingStrategy |-> strategy],
     confidenceScore |-> score, needsManualReview |-> review, status |-> "pending"]

(* storeFailedParsing *)
FailedPending(u, from) ==
    ParsedPending(u, from,
                  [amount |-> 0, type |-> "expense", category |-> "Other",
                   merchant |-> "Unknown", paymentMethod |-> None],
                  "gmail", "failed", FailedScore, TRUE)

Ingested(source, outcome) ==
    [kind |-> "ingested", source |-> source, outcome |-> outcome,
     from |-> ret.from, message |-> ret.message]

ParseUnchanged ==
    /\ UNCHANGED <<nextPid, now, reqs, deliveries, inbox, processedEmailIds,
                   gmail, processedMessageIds, today>>
    /\ UNCHANGED learnVars

(* parseTransactionMessage(message) *)
ParseTransactionMessageCall ==
    /\ ret.kind = "message"
    /\ ret' = [kind |-> "parsed", parser |-> "generic", from |-> ret.from,
               message |-> ret.message, result |-> ParseTransactionMessage(ret.message)]
    /\ UNCHANGED <<pend, txns, reply>>
    /\ ParseUnchanged

(* parseBankEmail(from, subject, body) *)
ParseBankEmailCall ==
    /\ ret.kind = "message"
    /\ ret' = [kind |-> "parsed", parser |-> "bank", from |-> ret.from,
               message |-> ret.message, result |-> ParseBankEmail(ret.from, ret.message)]
    /\ UNCHANGED <<pend, txns, reply>>
    /\ ParseUnchanged

(* MultiUserGmailPollerService.processMessage, from the parsing on *)
GmailProcessMessage(u) ==
    /\ ret.kind = "message"
    /\ LET s == ParseStrategies(ret.from, ret.message)
       IN IF s.parsed.error
          THEN /\ pend' = pend @@ (nextPid :> FailedPending(u, ret.from))
               /\ ret' = Ingested("gmail", "failed")
          ELSE /\ pend' = pend @@ (nextPid :>
                     ParsedPending(u, ret.from,
                        [s.parsed EXCEPT !.category = IF @ = None THEN "Other" ELSE @],
                        "gmail", s.strategy,
                        CalculateConfidenceScore(s.parsed, ret.message), FALSE))
               /\ ret' = Ingested("gmail", s.strategy)
    /\ UNCHANGED <<txns, reply>>
    /\ ParseUnchanged

(* EmailPollerService.processEmail, from the parsing on *)
EmailProcessEmail(u) ==
    /\ ret.kind = "message"
    /\ LET parsed == ParseTransactionMessage(ret.message)
       IN IF parsed.error
          THEN /\ UNCHANGED pend
               /\ ret' = Ingested("email", "returned")
          ELSE /\ pend' = pend @@ (nextPid :>
                     ParsedPending(u, ret.from, parsed, "email", "testmail_forwarded",
                                   ForwardedScore, FALSE))
               /\ ret' = Ingested("email", "testmail_forwarded")
    /\ UNCHANGED <<txns, reply>>
    /\ ParseUnchanged

(* handleSmsWebhook on parseTransactionMessage: 400 on a parser error; the *)
(* dedupe key then reads `amount`, which the handler never declares        *)
SmsWebhookMessage(u) ==
    /\ ret.kind = "message"
    /\ LET parsed == ParseTransactionMessage(ret.message)
       IN IF parsed.error
          THEN /\ reply' = [NoReply EXCEPT !.handled = TRUE, !.code = 400, !.user = u]
               /\ ret' = Ingested("sms", "rejected")
               /\ UNCHANGED txns
          ELSE LET m == [amount |-> parsed.amount, merchant |-> parsed.merchant,
                         method |-> parsed.paymentMethod, receivedAt |-> NoNum]
               IN IF Throws("amount")
                  THEN /\ reply' = [NoReply EXCEPT !.handled = TRUE, !.code = 500, !.user = u]
                       /\ ret' = Ingested("sms", "threw")
                       /\ UNCHANGED txns
                  ELSE /\ txns' = Append(txns, SmsTransaction(u, m, SmsHash(m)))
                       /\ reply' = SmsReply(u, m, 200, FALSE, Len(txns) + 1)
                       /\ ret' = Ingested("sms", "stored")
    /\ UNCHANGED pend
    /\ ParseUnchanged

InitParse ==
    \E msg \in Messages, s \in 1..MaxSenders :
        InitWith([kind |-> "message", from |-> Senders[s], message |-> msg])

NextParse ==
    \/ ParseTransactionMessageCall
    \/ ParseBankEmailCall
    \/ GmailProcessMessage("u1")
    \/ EmailProcessEmail("u1")
    \/ SmsWebhookMessage("u1")

SpecParse == InitParse /\ [][NextParse]_vars

(* C28: whenever a parser yields an amount, the type is income with a      *)
(* negative amount when the message carries a credit keyword (whatever     *)
(* debit keywords it also carries), and expense with a positive amount     *)
(* otherwise; so income implies negative and expense implies positive.     *)
C28_SignFollowsType ==
    (ret.kind = "parsed" /\ ret.result.found /\ ~ret.result.error /\ HasAmount(ret.result)) =>
        LET r == ret.result
            credit == IF ret.parser = "generic" THEN HasWord(ret.message, CreditWords)
                      ELSE HasWord(ret.message, BankPatterns(ret.from).credit)
        IN /\ r.type \in {"income", "expense"}
           /\ r.type = "income" <=> credit
           /\ r.type = "income" => r.amount < 0
           /\ r.type = "expense" => r.amount > 0

(* a message with both a credit and a debit keyword parsed as income *)
C28_Witness ==
    /\ ret.kind = "parsed"
    /\ ret.parser = "generic"
    /\ HasWord(ret.message, CreditWords)
    /\ HasWord(ret.message, DebitWords)
    /\ ret.result.found
    /\ ~ret.result.error
    /\ ret.result.type = "income"
    /\ ret.result.amount = 0 - 250

(* the stored record of the message that the Gmail poller has ingested *)
StoredPending == pend[1]

(* C29: the confidence score stored with a parsed Gmail candidate is 0.5,  *)
(* plus 0.1 for each of merchant, account number, balance, payment method  *)
(* present and category different from the parser's default category,      *)
(* minus 0.2 for an amount above 100000, plus 0.1 for a transaction        *)
(* keyword in the text, clamped to [0, 1]; a candidate with the default    *)
(* category gets no category bonus.                                        *)
C29_ScoreFormulaWithDefaultCategory ==
    (ret.kind = "ingested" /\ ret.source = "gmail" /\ ret.outcome # "failed") =>
        LET parsed == ParseStrategies(ret.from, ret.message).parsed
            expected == BaseScore
                        + Bonus(parsed.merchant # None)
                        + Bonus(parsed.accountNumber # None)
                        + Bonus(parsed.balance # None)
                        + Bonus(parsed.paymentMethod # None)
                        + Bonus(parsed.category # None /\ parsed.category # DefaultCategory)
                        - 2 * Bonus(parsed.amount > HighAmount)
                        + Bonus(HasWord(ret.message, TransactionKeywords))
        IN /\ StoredPending.confidenceScore = Clamp(expected)
           /\ StoredPending.confidenceScore \in 0..10

(* C30: a message whose amount cannot be resolved is stored, whatever the  *)
(* inbound source, as a pending record with parsing strategy failed, a     *)
(* very low confidence score and the needsManualReview tag.                *)
C30_UnparsedMessageIsStored ==
    (/\ ret.kind = "ingested"
     /\ ParseTransactionMessage(ret.message).error
     /\ ret.source = "gmail" => ParseStrategies(ret.from, ret.message).parsed.error)
    => \E id \in DOMAIN pend :
          /\ pend[id].status = "pending"
          /\ pend[id].source.parsingStrategy = "failed"
          /\ pend[id].confidenceScore = FailedScore
          /\ pend[id].needsManualReview

(***************************************************************************)
(* The push notification that follows the creation of a pending record in  *)
(* MultiUserGmailPollerService.processMessage                              *)
(***************************************************************************)
MaxTokens == 2

(* what admin.messaging().send does for a device token *)
SendOutcomes == {"sent", "invalid_token", "unknown_error"}

(* sendPendingTransactionNotification: it never throws; it returns         *)
(* { success: true } or { success: false, reason }                         *)
SendPendingTransactionNotification(initialized, outcome) ==
    IF ~initialized THEN [success |-> FALSE, reason |-> "not_initialized"]
    ELSE IF outcome = "sent" THEN [success |-> TRUE, reason |-> None]
    ELSE [success |-> FALSE, reason |-> outcome]

RECURSIVE NotifyLoop(_, _, _, _)
(* for (const token of user.deviceTokens): send, set the flag, save, break; *)
(* a throw (of the save) is logged and the loop goes on to the next token.  *)
(* st = [sends, stored]: the collaborator's results so far and the flag as  *)
(* the collection holds it                                                  *)
NotifyLoop(i, n, cfg, st) ==
    IF i > n THEN st
    ELSE LET result == SendPendingTransactionNotification(cfg.initialized, cfg.outcomes[i])
             sent == [st EXCEPT !.sends = Append(@, result)]
         IN IF cfg.saveFails[i] THEN NotifyLoop(i + 1, n, cfg, sent)
            ELSE [sent EXCEPT !.stored = TRUE]

NotifyConfigs ==
    [tokens : 0..MaxTokens, initialized : BOOLEAN,
     outcomes : [1..MaxTokens -> SendOutcomes], saveFails : [1..MaxTokens -> BOOLEAN]]

(* processMessage from the parsing to the notification *)
GmailCreateAndNotify(u, cfg) ==
    /\ ret.kind = "message"
    /\ LET s == ParseStrategies(ret.from, ret.message)
       IN IF s.parsed.error
          THEN /\ pend' = pend @@ (nextPid :> FailedPending(u, ret.from))
               /\ ret' = [kind |-> "notified", created |-> FALSE, sends |-> <<>>]
          ELSE LET n == NotifyLoop(1, cfg.tokens, cfg, [sends |-> <<>>, stored |-> FALSE])
                   doc == ParsedPending(u, ret.from,
                             [s.parsed EXCEPT !.category = IF @ = None THEN "Other" ELSE @],
                             "gmail", s.strategy,
                             CalculateConfidenceScore(s.parsed, ret.message), FALSE)
               IN /\ pend' = pend @@ (nextPid :> (doc @@ [notificationSent |-> n.stored]))
                  /\ ret' = [kind |-> "notified", created |-> TRUE, sends |-> n.sends]
    /\ UNCHANGED <<txns, reply>>
    /\ ParseUnchanged

NextNotify == \E cfg \in NotifyConfigs : GmailCreateAndNotify("u1", cfg)

SpecNotify == InitParse /\ [][NextNotify]_vars

(* C31: the stored notificationSent flag is set only when the notification *)
(* collaborator reported a successful send, and the collaborator is        *)
(* invoked at most once for a created pending record.                      *)
C31_FlagOnlyAfterSuccessfulSend ==
    (ret.kind = "notified" /\ ret.created) =>
        /\ pend[1].notificationSent => \E i \in DOMAIN ret.sends : ret.sends[i].success
        /\ Len(ret.sends) <= 1

(***************************************************************************)
(* The pollers' in-memory caches of processed message ids over many poll   *)
(* cycles.  Message ids are numbered in order of arrival; a cycle lists    *)
(* the page of the cycle before (still unread) and a page of new messages. *)
(***************************************************************************)
MaxCached == 1040

GmailMaxResults == 20
EmailPage == 10

Page(from, to) == [i \in 1..(to - from + 1) |-> from + i - 1]

RECURSIVE EmailCacheLoop(_, _)
(* the loop of EmailPollerService.fetchAndProcessEmails over newEmails:    *)
(* processEmail, processedEmailIds.add, eviction of the first item         *)
EmailCacheLoop(processed, ids) ==
    IF ids = <<>> THEN processed
    ELSE EmailCacheLoop(AddProcessed(processed, Head(ids)), Tail(ids))

RECURSIVE GmailCacheLoop(_, _)
(* the loop of MultiUserGmailPollerService.processUserEmails over the      *)
(* listed messages: skip a processed id, else processMessage and           *)
(* processedSet.add                                                        *)
GmailCacheLoop(processedSet, ids) ==
    IF ids = <<>> THEN processedSet
    ELSE IF Head(ids) \in processedSet THEN GmailCacheLoop(processedSet, Tail(ids))
    ELSE GmailCacheLoop(processedSet \cup {Head(ids)}, Tail(ids))

CacheUnchanged ==
    /\ UNCHANGED <<pend, nextPid, txns, now, reqs, deliveries, inbox, gmail, today, reply>>
    /\ UNCHANGED learnVars

(* one cycle of the forwarded-email poller *)
EmailCacheCycle ==
    /\ ret.email + EmailPage <= MaxCached
    /\ LET listed == Page(IF ret.email > EmailPage THEN ret.email - EmailPage + 1 ELSE 1,
                          ret.email + EmailPage)
           newEmails == SelectSeq(listed, LAMBDA id : id \notin Range(processedEmailIds))
       IN processedEmailIds' = EmailCacheLoop(processedEmailIds, newEmails)
    /\ ret' = [ret EXCEPT !.email = @ + EmailPage]
    /\ UNCHANGED processedMessageIds
    /\ CacheUnchanged

(* one cycle of the multi-user Gmail poller for user u *)
GmailCacheCycle(u) ==
    /\ ret.gmail[u] + GmailMaxResults <= MaxCached
    /\ LET listed == Page(IF ret.gmail[u] > GmailMaxResults
                          THEN ret.gmail[u] - GmailMaxResults + 1 ELSE 1,
                          ret.gmail[u] + GmailMaxResults)
       IN processedMessageIds' =
             [processedMessageIds EXCEPT ![u] = GmailCacheLoop(@, listed)]
    /\ ret' = [ret EXCEPT !.gmail[u] = @ + GmailMaxResults]
    /\ UNCHANGED processedEmailIds
    /\ CacheUnchanged

InitCache == InitWith([kind |-> "cache", email |-> 0, gmail |-> [u \in Users |-> 0]])

NextCache ==
    \/ EmailCacheCycle
    \/ GmailCacheCycle("u1")

SpecCache == InitCache /\ [][NextCache]_vars

(* C35: every poller's cache of processed message ids holds at most 1000   *)
(* ids, whatever the number of poll cycles.                                *)
C35_ProcessedCachesBounded ==
    /\ Len(processedEmailIds) <= ProcessedCap
    /\ \A u \in Users : Cardinality(processedMessageIds[u]) <= ProcessedCap

(***************************************************************************)
(* SpecIsolate: a failure inside one message of a poll cycle.  The         *)
(* multi-user Gmail poller (processUserEmails) and the single-account      *)
(* Gmail poller (GmailPollerService.fetchAndProcessEmails with its         *)
(* processMessage) run over the mailboxes.  ret carries the single-account *)
(* poller's processedMessageIds (insertion order) and what the last cycle  *)
(* listed and which of its messages failed.                                *)
(***************************************************************************)
(* the account the single-account poller is authorised for *)
AuthorizedUser == "u1"

(* GmailPollerService.processMessage: every error is caught inside it, so  *)
(* the caller never sees one; a failing message writes nothing and stays   *)
(* unread.  st = [pend, nextPid, box]                                       *)
SingleProcessMessage(st, m, fails) ==
    IF m \in fails THEN st
    ELSE [st EXCEPT !.pend = st.pend @@ (st.nextPid :> GmailPending(AuthorizedUser, m)),
                    !.nextPid = @ + 1,
                    !.box = [@ EXCEPT ![m] = "read"]]

(* the loop of fetchAndProcessEmails; st = [pend, nextPid, box, processed] *)
RECURSIVE SingleLoop(_, _, _)
SingleLoop(st, msgs, fails) ==
    IF msgs = <<>> THEN st
    ELSE LET m == Head(msgs)
             done == SingleProcessMessage([pend |-> st.pend, nextPid |-> st.nextPid,
                                           box |-> st.box], m, fails)
         IN IF m \in Range(st.processed) THEN SingleLoop(st, Tail(msgs), fails)
            ELSE SingleLoop([pend |-> done.pend, nextPid |-> done.nextPid, box |-> done.box,
                             processed |-> AddProcessed(st.processed, m)],
                            Tail(msgs), fails)

IsolateUnchanged ==
    /\ UNCHANGED <<txns, now, reqs, deliveries, inbox, processedEmailIds, today, reply>>
    /\ UNCHANGED learnVars

(* one cycle of the single-account poller; fails: the messages whose       *)
(* processing throws (messages.get or the PendingTransaction write)        *)
SingleFetchAndProcessEmails(fails) ==
    /\ nextPid <= MaxIngest
    /\ LET msgs == SelectSeq(GmailOrder, LAMBDA m : gmail[AuthorizedUser][m] = "unread")
           r == SingleLoop([pend |-> pend, nextPid |-> nextPid,
                            box |-> gmail[AuthorizedUser], processed |-> ret.single],
                           msgs, fails)
       IN /\ msgs # <<>>
          /\ pend' = r.pend
          /\ nextPid' = r.nextPid
          /\ gmail' = [gmail EXCEPT ![AuthorizedUser] = r.box]
          /\ ret' = [ret EXCEPT !.single = r.processed, !.poller = "single",
                                !.user = AuthorizedUser, !.listed = msgs,
                                !.failed = { m \in Range(msgs) :
                                               m \notin Range(ret.single) /\ m \in fails }]
    /\ UNCHANGED processedMessageIds
    /\ IsolateUnchanged

(* one cycle of the multi-user poller for user u; failAfterWrite as in GmailLoop *)
MultiProcessUserEmails(u, failAfterWrite) ==
    /\ nextPid <= MaxIngest
    /\ LET msgs == SelectSeq(GmailOrder, LAMBDA m : gmail[u][m] = "unread")
           r == GmailLoop([pend |-> pend, nextPid |-> nextPid,
                           processed |-> processedMessageIds[u], box |-> gmail[u]],
                          u, msgs, failAfterWrite, {})
       IN /\ msgs # <<>>
          /\ pend' = r.pend
          /\ nextPid' = r.nextPid
          /\ processedMessageIds' = [processedMessageIds EXCEPT ![u] = r.processed]
          /\ gmail' = [gmail EXCEPT ![u] = r.box]
          /\ ret' = [ret EXCEPT !.poller = "multi", !.user = u, !.listed = msgs,
                                !.failed = { m \in Range(msgs) :
                                               /\ m \notin processedMessageIds[u]
                                               /\ GmailParsed(m)
                                               /\ m \in failAfterWrite }]
    /\ IsolateUnchanged

IsolateArrive(u, m) ==
    /\ gmail[u][m] = "absent"
    /\ gmail' = [gmail EXCEPT ![u][m] = "unread"]
    /\ UNCHANGED <<pend, nextPid, processedMessageIds, ret>>
    /\ IsolateUnchanged

InitIsolate ==
    InitWith([kind |-> "isolate", single |-> <<>>, poller |-> None, user |-> None,
              listed |-> <<>>, failed |-> {}])

NextIsolate ==
    \/ \E u \in Users, m \in GmailIds : IsolateArrive(u, m)
    \/ \E fails \in SUBSET GmailIds : SingleFetchAndProcessEmails(fails)
    \/ \E u \in Users, fw \in SUBSET GmailIds : MultiProcessUserEmails(u, fw)

SpecIsolate == InitIsolate /\ [][NextIsolate]_vars

(* the processed-id cache of the poller whose cycle ret describes *)
CycleCache ==
    IF ret.poller = "single" THEN Range(ret.single) ELSE processedMessageIds[ret.user]

(* C32: after a poll cycle, a message whose processing failed is not in    *)
(* the poller's processed cache (so a later cycle picks it up again),      *)
(* while every other message the cycle listed has been processed and is    *)
(* in the cache.                                                           *)
C32_FailedMessageStaysUnprocessed ==
    (ret.kind = "isolate" /\ ret.poller # None) =>
        /\ \A m \in ret.failed : m \notin CycleCache
        /\ \A m \in Range(ret.listed) \ ret.failed : m \in CycleCache

(***************************************************************************)
(* SpecCorrect: approvals with no correctedData, with correctedData that   *)
(* repeats the parse, and with a real correction, on records of both       *)
(* e-mail sources.                                                         *)
(***************************************************************************)
MaxCorrected == 2

(* a correctedData body whose fields repeat the record's parsedData *)
EqualCorrection(d) ==
    [present |-> TRUE, amount |-> d.parsed.amount, type |-> d.parsed.type,
     category |-> d.parsed.category, merchant |-> d.parsed.merchant,
     paymentMethod |-> d.parsed.paymentMethod, date |-> NoNum,
     hasLocation |-> FALSE, coords |-> <<>>]

CorrectCreate(u, parsed, src) ==
    /\ nextPid <= MaxCorrected
    /\ pend' = pend @@ (nextPid :> NewPending(u, parsed, src))
    /\ nextPid' = nextPid + 1
    /\ UNCHANGED <<txns, now>>
    /\ UNCHANGED <<learnVars, auxVars>>

CorrectApprove(u, id, cd) ==
    /\ FindOnePending(pend, u, id)
    /\ ApproveRoute(u, id, cd, {})

CorrectApproveEqual(u, id) ==
    /\ FindOnePending(pend, u, id)
    /\ ApproveRoute(u, id, EqualCorrection(pend[id]), {})

NextCorrect ==
    \/ \E u \in Users, c \in IngestChoices : CorrectCreate(u, c[1], c[2])
    \/ \E u \in Users, id \in 1..MaxCorrected, cd \in {NoCorrection, MainCorrection} :
          CorrectApprove(u, id, cd)
    \/ \E u \in Users, id \in 1..MaxCorrected : CorrectApproveEqual(u, id)

SpecCorrect == Init /\ [][NextCorrect]_vars

(* correctedData names a value other than the parsed one *)
DiffersFromParse(d, cd) ==
    /\ cd.present
    /\ \/ cd.amount # d.parsed.amount
       \/ cd.type # d.parsed.type
       \/ cd.category # d.parsed.category
       \/ cd.merchant # d.parsed.merchant
       \/ cd.paymentMethod # d.parsed.paymentMethod

UserScoped(store, u) == { i \in DOMAIN store : store[i].user = u /\ ~store[i].isGlobal }

(* C33: an approval whose correctedData is absent or repeats the parse     *)
(* creates no EmailParsingPattern and appends to no category or payment    *)
(* history; an approval that corrects a record of an e-mail source (email  *)
(* or gmail) with a known sender creates exactly one user-scoped           *)
(* EmailParsingPattern, of confidence 0.7.                                 *)
C33_LearnersOnlyOnRealCorrection ==
    [][\A id \in DOMAIN pend :
         ApprovedNow(id) =>
            LET d == pend[id]
                cd == pend'[id].feedback.corrected
                before == UserScoped(emailParsingPatterns, d.user)
                after == UserScoped(emailParsingPatterns', d.user)
            IN /\ ~DiffersFromParse(d, cd) =>
                     /\ emailParsingPatterns' = emailParsingPatterns
                     /\ \A k \in DOMAIN merchantPatterns' :
                           /\ merchantPatterns'[k].category.history
                                 = OldPattern(k).category.history
                           /\ merchantPatterns'[k].payment.history
                                 = OldPattern(k).payment.history
               /\ (/\ DiffersFromParse(d, cd)
                   /\ d.source.type \in {"email", "gmail"}
                   /\ d.source.from # None) =>
                     /\ Cardinality(after) = Cardinality(before) + 1
                     /\ \A i \in after \ before :
                           emailParsingPatterns'[i].confidence = 70]_vars

(* C34: every stored EmailLocationPattern has successfulExtractions <=     *)
(* timesMatched and a confidence equal to successfulExtractions /          *)
(* timesMatched (confidences are percentages here), from its creation on.  *)
C34_ConfidenceIsSuccessRatio ==
    \A i \in DOMAIN emailLocationPatterns :
       LET p == emailLocationPatterns[i]
       IN /\ p.successfulExtractions <= p.timesMatched
          /\ p.timesMatched > 0
          /\ p.confidence = (p.successfulExtractions * 100) \div p.timesMatched

(* C36: requests that read the same pending record while it is pending     *)
(* create at most one Transaction from it, which the record's              *)
(* approvedTransaction then references; and once the racing requests have  *)
(* finished, a record that ended rejected or expired has no Transaction.   *)
C36_RacingDecisionsLeaveOneOutcome ==
    \A id \in DOMAIN pend :
        /\ Cardinality(TxFrom(id)) <= 1
        /\ Quiescent =>
              /\ TxFrom(id) # {} /\ pend[id].status = "approved"
                    => TxFrom(id) = {pend[id].approvedTransaction}
              /\ pend[id].status \in {"rejected", "expired"} => TxFrom(id) = {}

(***************************************************************************)
(* SpecAtomic: POST /:id/approve when one of approve()'s two primary       *)
(* writes is rejected by the database: Transaction.create, or the          *)
(* this.save() that stores the new status.  Either error leaves approve(), *)
(* reaches the route's catch and is answered 500; the route's own learning *)
(* is not reached.                                                         *)
(***************************************************************************)
MaxAtomic == 2

Faults == {"none", "create", "save"}

AtomicApprove(u, id, cd, fault) ==
    /\ FindOnePending(pend, u, id)
    /\ Len(txns) < MaxAtomic
    /\ Len(emailParsingPatterns) < MaxAtomic
    /\ LET d == pend[id]
           t == NewTransaction(id, d, cd)
           o == ApproveOutcome(u, id, cd, {})
       IN /\ emailParsingPatterns' = ApproveLearnEmail(emailParsingPatterns, d, cd, {})
          /\ IF fault = "create" \/ ~TransactionValid(t)
             THEN /\ UNCHANGED <<pend, txns, merchantPatterns, merchantLocations,
                                 emailLocationPatterns, learningPatterns>>
                  /\ ret' = [kind |-> "atomic", id |-> id, fault |-> "create", code |-> 500]
             ELSE IF fault = "save"
             THEN /\ txns' = Append(txns, t)
                  /\ UNCHANGED <<pend, merchantPatterns, merchantLocations,
                                 emailLocationPatterns, learningPatterns>>
                  /\ ret' = [kind |-> "atomic", id |-> id, fault |-> "save", code |-> 500]
             ELSE /\ pend' = o.pend
                  /\ txns' = o.txns
                  /\ merchantPatterns' = o.merchantPatterns
                  /\ merchantLocations' = o.merchantLocations
                  /\ emailLocationPatterns' = o.emailLocationPatterns
                  /\ learningPatterns' = o.learningPatterns
                  /\ ret' = [kind |-> "atomic", id |-> id, fault |-> "none", code |-> o.code]
    /\ UNCHANGED <<nextPid, now, reqs, deliveries, inbox, processedEmailIds, gmail,
                   processedMessageIds, today, reply>>

AtomicCreate(u, parsed, src) ==
    /\ nextPid <= MaxAtomic
    /\ pend' = pend @@ (nextPid :> NewPending(u, parsed, src))
    /\ nextPid' = nextPid + 1
    /\ UNCHANGED <<txns, now>>
    /\ UNCHANGED <<learnVars, auxVars>>

NextAtomic ==
    \/ \E u \in Users, c \in IngestChoices : AtomicCreate(u, c[1], c[2])
    \/ \E u \in Users, id \in 1..MaxAtomic, cd \in {NoCorrection, MainCorrection},
          fault \in Faults : AtomicApprove(u, id, cd, fault)

SpecAtomic == Init /\ [][NextAtomic]_vars

(* C37: an approve whose Transaction.create failed leaves the record       *)
(* pending, the Transaction collection and every learning store as they    *)
(* were; an approve whose save of the status failed leaves no Transaction  *)
(* for the record that is still pending.                                   *)
C37_ApproveIsAllOrNothing ==
    [][\A u \in Users, id \in 1..MaxAtomic, cd \in {NoCorrection, MainCorrection} :
         /\ AtomicApprove(u, id, cd, "create") =>
               /\ pend' = pend
               /\ txns' = txns
               /\ learnVars' = learnVars
         /\ AtomicApprove(u, id, cd, "save") =>
               (pend'[id].status = "pending"
                   => { i \in DOMAIN txns' : txns'[i].fromPending = id } = {})]_vars

(***************************************************************************)
(* SpecPoller: start(), stop() and the polling loops of one poller         *)
(* instance, one step per stretch of code between two awaits.  ret holds   *)
(* the instance: which service it is, isPolling, the start() calls that    *)
(* await initialize(), every loop (or timer chain) ever spawned with its   *)
(* position, and the chain whose timer this.pollTimeout names.             *)
(*   email : EmailPollerService        (start is synchronous)              *)
(*   gmail : GmailPollerService        (start awaits initialize())         *)
(*   multi : MultiUserGmailPollerService (poll() re-arms a timer)          *)
(***************************************************************************)
MaxLoops == 3

Services == {"email", "gmail", "multi"}
LoopIds == 1..MaxLoops

PollerUnchanged ==
    /\ UNCHANGED <<pend, nextPid, txns, now, reqs, deliveries, inbox, processedEmailIds,
                   gmail, processedMessageIds, today, reply>>
    /\ UNCHANGED learnVars

Spawned == { l \in LoopIds : ret.loops[l] # "none" }

(* pollLoop() / poll() called: it runs up to the await of its first fetch *)
SpawnLoop(p) ==
    LET l == Cardinality(Spawned) + 1
    IN [p EXCEPT !.isPolling = TRUE, !.loops[l] = "fetch"]

(* start() up to its first await, or to its end where it has none *)
PollerStart ==
    /\ Cardinality(Spawned) + ret.starting < MaxLoops
    /\ ret' = IF ret.isPolling THEN ret
              ELSE IF ret.service = "gmail" THEN [ret EXCEPT !.starting = @ + 1]
              ELSE SpawnLoop(ret)
    /\ ret' # ret
    /\ PollerUnchanged

(* GmailPollerService.start() after initialize() has resolved *)
PollerStartInitialized ==
    /\ ret.starting > 0
    /\ ret' = [SpawnLoop(ret) EXCEPT !.starting = @ - 1]
    /\ PollerUnchanged

(* stop(); clearTimeout cancels the timer this.pollTimeout names *)
PollerStop ==
    /\ ret' = [ret EXCEPT
                 !.isPolling = FALSE,
                 !.loops = [l \in LoopIds |->
                              IF /\ ret.service = "multi"
                                 /\ l = ret.pollTimeout
                                 /\ ret.loops[l] = "sleep"
                              THEN "ended" ELSE ret.loops[l]]]
    /\ ret' # ret
    /\ PollerUnchanged

(* the fetch of loop l returns or throws: the loop sleeps / arms its timer *)
LoopFetchDone(l) ==
    /\ ret.loops[l] = "fetch"
    /\ ret' = [ret EXCEPT !.loops[l] = "sleep",
                          !.pollTimeout = IF ret.service = "multi" THEN l ELSE @]
    /\ PollerUnchanged

(* the sleep of loop l is over: while (this.isPolling) / if (!isPolling) return *)
LoopWake(l) ==
    /\ ret.loops[l] = "sleep"
    /\ ret' = [ret EXCEPT !.loops[l] = IF ret.isPolling THEN "fetch" ELSE "ended"]
    /\ PollerUnchanged

InitPoller ==
    \E s \in Services :
        InitWith([kind |-> "poller", service |-> s, isPolling |-> FALSE, starting |-> 0,
                  loops |-> [l \in LoopIds |-> "none"], pollTimeout |-> 0])

NextPoller ==
    \/ PollerStart
    \/ PollerStartInitialized
    \/ PollerStop
    \/ \E l \in LoopIds : LoopFetchDone(l)
    \/ \E l \in LoopIds : LoopWake(l)

SpecPoller == InitPoller /\ [][NextPoller]_vars

(* the loops that are in a poll cycle, or will begin one when their sleep  *)
(* ends if nothing else happens                                            *)
ActiveLoops(p) ==
    { l \in LoopIds : p.loops[l] = "fetch" \/ (p.loops[l] = "sleep" /\ p.isPolling) }

(* C38: at most one polling loop of the instance is active at any time,    *)
(* and a poll cycle begins only while isPolling is set (so none begins     *)
(* between a stop() and the next start()).                                 *)
C38_AtMostOneLoop ==
    [][/\ Cardinality(ActiveLoops(ret')) <= 1
       /\ \A l \in LoopIds :
             (ret.loops[l] # "fetch" /\ ret'.loops[l] = "fetch") => ret'.isPolling]_vars

(***************************************************************************)
(* SpecAuth: Gmail answering a poller with an authorization failure.  ret  *)
(* holds the users' gmailIntegration.enabled flags, what the last cycle of *)
(* the multi-user poller did (who was polled, what Gmail answered to each  *)
(* user), and the single-account poller's isPolling flag, loop position    *)
(* and processed-id set.  The two pollers are separate services; a         *)
(* behaviour follows one of them (ret.service).                            *)
(***************************************************************************)
MaxCycles == 3

UserOrder == <<"u1", "u2">>

(* what Gmail answers within processUserEmails of one user: everything     *)
(* works; messages.list rejects with code 401, with an invalid_grant       *)
(* message, or with a server error; or the list works and every            *)
(* messages.get rejects with 401                                           *)
GmailAnswers == {"ok", "401", "invalid_grant", "500", "get401"}

(* a test that forgets the invalid_grant message *)
IsAuthFailureCodeOnly(answer) == answer = "401"

(* GmailPollerService: error.code === 401 *)
IsUnauthorized(answer) == answer = "401"

(* error.code === 401 || error.message.includes('invalid_grant') *)
IsAuthFailure(answer) == answer \in {"401", "invalid_grant"}

(* processUserEmails for user u; st = [pend, nextPid, processed, box, enabled] *)
AuthProcessUserEmails(st, u, answer) ==
    IF answer = "ok"
    THEN LET msgs == SelectSeq(GmailOrder, LAMBDA m : st.box[u][m] = "unread")
             r == GmailLoop([pend |-> st.pend, nextPid |-> st.nextPid,
                             processed |-> st.processed[u], box |-> st.box[u]],
                            u, msgs, {}, {})
         IN [st EXCEPT !.pend = r.pend, !.nextPid = r.nextPid,
                       !.processed[u] = r.processed, !.box[u] = r.box]
    ELSE IF IsAuthFailure(answer) THEN [st EXCEPT !.enabled[u] = FALSE]
    ELSE st

(* the for loop of fetchAndProcessAllUsers over the users found; an error  *)
(* of one user is caught and the loop goes on                              *)
RECURSIVE AllUsersLoop(_, _, _)
AllUsersLoop(st, users, answers) ==
    IF users = <<>> THEN st
    ELSE AllUsersLoop(AuthProcessUserEmails(st, Head(users), answers[Head(users)]),
                      Tail(users), answers)

AuthUnchanged ==
    /\ UNCHANGED <<txns, now, reqs, deliveries, inbox, processedEmailIds, today, reply>>
    /\ UNCHANGED learnVars

(* one poll cycle of the multi-user poller *)
FetchAndProcessAllUsers(answers) ==
    /\ ret.service = "multi"
    /\ ret.cycles < MaxCycles
    /\ nextPid <= MaxIngest
    /\ LET users == SelectSeq(UserOrder, LAMBDA u : ret.enabled[u])
           r == AllUsersLoop([pend |-> pend, nextPid |-> nextPid,
                              processed |-> processedMessageIds, box |-> gmail,
                              enabled |-> ret.enabled], users, answers)
       IN /\ pend' = r.pend
          /\ nextPid' = r.nextPid
          /\ processedMessageIds' = r.processed
          /\ gmail' = r.box
          /\ ret' = [ret EXCEPT !.enabled = r.enabled, !.cycles = @ + 1,
                                !.polled = Range(users),
                                !.answers = [u \in Users |->
                                               IF u \in Range(users) THEN answers[u]
                                               ELSE None]]
    /\ AuthUnchanged

(* the OAuth callback of the settings routes stores new tokens *)
ConnectGmail(u) ==
    /\ ret.service = "multi"
    /\ ~ret.enabled[u]
    /\ ret' = [ret EXCEPT !.enabled[u] = TRUE]
    /\ UNCHANGED <<pend, nextPid, gmail, processedMessageIds>>
    /\ AuthUnchanged

AuthArrive(u, m) ==
    /\ ret.service = "gmail" => u = AuthorizedUser
    /\ gmail[u][m] = "absent"
    /\ gmail' = [gmail EXCEPT ![u][m] = "unread"]
    /\ UNCHANGED <<pend, nextPid, processedMessageIds, ret>>
    /\ AuthUnchanged

(* GmailPollerService.start(), authorised *)
SingleStart ==
    /\ ret.service = "gmail"
    /\ ret.single = "idle"
    /\ ret' = [ret EXCEPT !.isPolling = TRUE, !.single = "fetch"]
    /\ UNCHANGED <<pend, nextPid, gmail, processedMessageIds>>
    /\ AuthUnchanged

(* the fetchAndProcessEmails the loop awaits ends: it returns, or its      *)
(* messages.list rejects; either way the loop then sleeps                  *)
SingleFetchEnds(answer) ==
    /\ ret.single = "fetch"
    /\ ret.fetches < MaxCycles
    /\ nextPid <= MaxIngest
    /\ LET msgs == SelectSeq(GmailOrder, LAMBDA m : gmail[AuthorizedUser][m] = "unread")
           r == SingleLoop([pend |-> pend, nextPid |-> nextPid,
                            box |-> gmail[AuthorizedUser], processed |-> ret.cache],
                           msgs, IF answer = "get401" THEN GmailIds ELSE {})
       IN IF answer \in {"ok", "get401"}
          THEN /\ pend' = r.pend
               /\ nextPid' = r.nextPid
               /\ gmail' = [gmail EXCEPT ![AuthorizedUser] = r.box]
               /\ ret' = [ret EXCEPT !.cache = r.processed, !.single = "sleep",
                                     !.fetches = @ + 1, !.last = answer]
          ELSE /\ UNCHANGED <<pend, nextPid, gmail>>
               /\ ret' = [ret EXCEPT !.single = "sleep", !.fetches = @ + 1,
                                     !.last = answer,
                                     !.isPolling = IF IsUnauthorized(answer)
                                                   THEN FALSE ELSE @]
    /\ UNCHANGED processedMessageIds
    /\ AuthUnchanged

(* the sleep is over: while (this.isPolling) *)
SingleWake ==
    /\ ret.single = "sleep"
    /\ ret' = [ret EXCEPT !.single = IF ret.isPolling THEN "fetch" ELSE "ended"]
    /\ UNCHANGED <<pend, nextPid, gmail, processedMessageIds>>
    /\ AuthUnchanged

InitAuth ==
    \E s \in {"multi", "gmail"} :
    InitWith([kind |-> "auth", service |-> s, enabled |-> [u \in Users |-> TRUE], cycles |-> 0,
              polled |-> {}, answers |-> [u \in Users |-> None],
              isPolling |-> FALSE, single |-> "idle", cache |-> <<>>, fetches |-> 0,
              last |-> None])

NextAuth ==
    \/ \E answers \in [Users -> GmailAnswers] : FetchAndProcessAllUsers(answers)
    \/ \E u \in Users : ConnectGmail(u)
    \/ \E u \in Users, m \in GmailIds : AuthArrive(u, m)
    \/ SingleStart
    \/ \E answer \in GmailAnswers \ {"invalid_grant"} : SingleFetchEnds(answer)
    \/ SingleWake

SpecAuth == InitAuth /\ [][NextAuth]_vars

MaxOwned == 2

OwnedIds == 1..MaxOwned

OwnerUnchanged == UNCHANGED <<nextPid, now, reqs, deliveries, inbox, processedEmailIds, gmail,
                              processedMessageIds, today, reply>>

OwnerCreate(u, parsed, src) ==
    /\ ret = NoRet
    /\ nextPid <= MaxOwned
    /\ pend' = pend @@ (nextPid :> NewPending(u, parsed, src))
    /\ nextPid' = nextPid + 1
    /\ UNCHANGED <<txns, now>>
    /\ UNCHANGED <<learnVars, auxVars>>

OwnerApprove(a, id, cd) ==
    /\ ret = NoRet
    /\ LET o == ApproveOutcome(a, id, cd, {})
       IN /\ pend' = o.pend
          /\ txns' = o.txns
          /\ emailParsingPatterns' = o.emailParsingPatterns
          /\ merchantPatterns' = o.merchantPatterns
          /\ merchantLocations' = o.merchantLocations
          /\ emailLocationPatterns' = o.emailLocationPatterns
          /\ learningPatterns' = o.learningPatterns
          /\ ret' = [kind |-> "review", op |-> "approve", user |-> a, ids |-> <<id>>,
                     code |-> o.code]
    /\ OwnerUnchanged

OwnerReject(a, id, reason) ==
    /\ ret = NoRet
    /\ pend' = IF FindOnePending(pend, a, id)
               THEN [pend EXCEPT ![id] = RejectedDoc(pend[id], reason)]
               ELSE pend
    /\ ret' = [kind |-> "review", op |-> "reject", user |-> a, ids |-> <<id>>,
               code |-> RejectResponse(a, id)]
    /\ UNCHANGED txns
    /\ UNCHANGED learnVars
    /\ OwnerUnchanged

OwnerBulkApprove(a, ids) ==
    /\ ret = NoRet
    /\ LET r == BulkApproveLoop([pend |-> pend, txns |-> txns], a, ids, 0)
       IN /\ pend' = r.pend
          /\ txns' = r.txns
          /\ ret' = [kind |-> "review", op |-> "bulk", user |-> a, ids |-> ids,
                     code |-> IF r.approved = Len(ids) THEN 200 ELSE 207]
    /\ UNCHANGED learnVars
    /\ OwnerUnchanged

OwnerDelete(a, id) ==
    /\ ret = NoRet
    /\ LET found == id \in DOMAIN pend /\ pend[id].user = a
       IN /\ pend' = IF found THEN [i \in DOMAIN pend \ {id} |-> pend[i]] ELSE pend
          /\ ret' = [kind |-> "review", op |-> "delete", user |-> a, ids |-> <<id>>,
                     code |-> IF found THEN 200 ELSE 404]
    /\ UNCHANGED txns
    /\ UNCHANGED learnVars
    /\ OwnerUnchanged

OwnerRead ==
    /\ ret # NoRet
    /\ ret' = NoRet
    /\ UNCHANGED <<pend, nextPid, txns, now, reqs, deliveries, inbox, processedEmailIds,
                   gmail, processedMessageIds, today, reply>>
    /\ UNCHANGED learnVars

NextOwner ==
    \/ \E u \in Users, c \in IngestChoices : OwnerCreate(u, c[1], c[2])
    \/ \E a \in Users, id \in OwnedIds, cd \in {NoCorrection, MainCorrection} :
          OwnerApprove(a, id, cd)
    \/ \E a \in Users, id \in OwnedIds : OwnerReject(a, id, "wrong")
    \/ \E a \in Users, ids \in { <<i>> : i \in OwnedIds } \cup {<<1, 2>>} :
          OwnerBulkApprove(a, ids)
    \/ \E a \in Users, id \in OwnedIds : OwnerDelete(a, id)
    \/ OwnerRead

SpecOwner == Init /\ [][NextOwner]_vars

(* every entry of the sequence new that is not the same entry of old belongs to a *)
SeqOnlyOf(old, new, a) ==
    \A i \in DOMAIN new : (i \notin DOMAIN old \/ new[i] # old[i]) => new[i].user = a

(* every key of new that old does not map to the same document is a key of a *)
KeyedOnlyOf(old, new, a) ==
    /\ \A k \in DOMAIN new : (k \notin DOMAIN old \/ new[k] # old[k]) => k[1] = a
    /\ \A k \in DOMAIN old : k \in DOMAIN new

(* C39: a review request of user A leaves every pending record of another  *)
(* user, every Transaction of another user and every learning record of    *)
(* another user as it was; the Transactions and learning records it writes *)
(* carry A as their user.                                                  *)
C39_DecisionsTouchOnlyOwnData ==
    [][ret'.kind = "review" =>
          LET a == ret'.user
          IN /\ \A id \in DOMAIN pend :
                   pend[id].user # a => (id \in DOMAIN pend' /\ pend'[id] = pend[id])
             /\ Len(txns') >= Len(txns)
             /\ SeqOnlyOf(txns, txns', a)
             /\ Len(emailParsingPatterns') >= Len(emailParsingPatterns)
             /\ SeqOnlyOf(emailParsingPatterns, emailParsingPatterns', a)
             /\ Len(emailLocationPatterns') >= Len(emailLocationPatterns)
             /\ SeqOnlyOf(emailLocationPatterns, emailLocationPatterns', a)
             /\ Len(learningPatterns') >= Len(learningPatterns)
             /\ SeqOnlyOf(learningPatterns, learningPatterns', a)
             /\ KeyedOnlyOf(merchantPatterns, merchantPatterns', a)
             /\ KeyedOnlyOf(merchantLocations, merchantLocations', a)]_vars

(* u2 has just asked to approve the pending record of u1 and got the 404,  *)
(* while u1 holds learning records from an approval of their own           *)
C39_Witness ==
    /\ ret.kind = "review"
    /\ ret.op = "approve"
    /\ ret.user = "u2"
    /\ ret.code = 404
    /\ ret.ids[1] \in DOMAIN pend
    /\ pend[ret.ids[1]].user = "u1"
    /\ pend[ret.ids[1]].status = "pending"
    /\ \E k \in DOMAIN merchantPatterns : k[1] = "u1"
    /\ \E i \in DOMAIN txns : txns[i].user = "u1"
====
